---- MODULE Spec2Model ----
(***************************************************************************)
(* A model of wytch/view.py: the view tree with its focus and dirty        *)
(* machinery, the linear layouts (ContainerView, Align, Box, Vertical,     *)
(* Horizontal), the Grid sizing algorithm, event routing and the Widget,   *)
(* ValueWidget, Radio, TextInput, Decade and Console classes.              *)
(*                                                                         *)
(* The specifications of the module:                                       *)
(*   Spec        the view tree and focus: add_child, remove_child,         *)
(*               Grid.set, the focused setter, focus_next/focus_prev, the  *)
(*               focusable and display attributes                          *)
(*   SpecDirty   the view tree and dirty: add_child, remove_child,         *)
(*               Grid.set, the dirty setter and the root's layout pass     *)
(*   SpecLayout  one container of a linear kind laid out on a canvas       *)
(*   SpecGrid    Grid.precalc followed by Grid.recalc on a cell table      *)
(*   SpecSplit   one spanning cell fitted into a row of column widths      *)
(*   SpecBubble  View.bubble up the view tree                              *)
(*   SpecKeys    the key handler of ContainerView and focus traversal      *)
(*   SpecMouse   the mouse handler of ContainerView on laid out children   *)
(*   SpecWidget  one Widget / ValueWidget: mouse press, focus, value       *)
(*   SpecRadio   Radio widgets and one Radio.Group                         *)
(*   SpecText    one TextInput and its key handlers                        *)
(*   SpecDecade  one Decade (decimals = 0) and its key handlers            *)
(*   SpecConsole one Console: push and canvas changes                      *)
(*   SpecDisplay one container with hidden children: layout and paint      *)
(*   SpecNest    the layout pre-pass through nested containers             *)
(*   SpecChain   the focus chain in a tree built from unfocused views      *)
(*   SpecKeyBubble a key bubbled from the focused leaf                     *)
(*   SpecResize  a plain ContainerView given one canvas after another      *)
(***************************************************************************)
EXTENDS Integers, Sequences, FiniteSets, TLC

VARIABLES tree, lay, grd, ev, wid

vars == <<tree, lay, grd, ev, wid>>

\* Python's None (also the value of an unset parent, canvas or grid cell).
None == 0

(***************************************************************************)
(* Generic helpers.                                                        *)
(***************************************************************************)
Range(s) == {s[i] : i \in 1..Len(s)}

Min(a, b) == IF a < b THEN a ELSE b

Max(a, b) == IF a > b THEN a ELSE b

RECURSIVE SumSeq(_)
SumSeq(s) == IF s = <<>> THEN 0 ELSE Head(s) + SumSeq(Tail(s))

\* list.remove(c): drops the first occurrence of c.
RECURSIVE ListRemove(_, _)
ListRemove(s, c) ==
    IF s = <<>> THEN <<>>
    ELSE IF Head(s) = c THEN Tail(s)
    ELSE <<Head(s)>> \o ListRemove(Tail(s), c)

(***************************************************************************)
(* The view tree.  Views are numbered; view 1 is the application's root    *)
(* ContainerView, view 2 a Grid of one row, views 3 and 4 are leaf views.  *)
(***************************************************************************)
Root == 1

TheGrid == 2

Leaves == {3, 4}

Views == {Root, TheGrid} \cup Leaves

\* The width of the grid (its height is 1).
TreeGridWidth == 1

Kind(v) == IF v = Root THEN "ContainerView" ELSE IF v = TheGrid THEN "Grid" ELSE "View"

Containers == {v \in Views : Kind(v) # "View"}

Cells == 1..TreeGridWidth

\* View.__init__ / ContainerView.__init__ / Grid.__init__
NewTree ==
    [parent    |-> [v \in Views |-> None],
     children  |-> [k \in Containers |-> <<>>],
     focused   |-> [v \in Views |-> FALSE],
     focusable |-> [v \in Views |-> TRUE],
     display   |-> [v \in Views |-> TRUE],
     zindex    |-> [v \in Views |-> 0],
     dirty     |-> [v \in Views |-> TRUE],
     grid      |-> [x \in Cells |-> None],
     raised    |-> "no",
     hooked    |-> FALSE,
     ret       |-> "None"]

\* View.root
RECURSIVE RootOf(_, _)
RootOf(s, v) == IF s.parent[v] = None THEN v ELSE RootOf(s, s.parent[v])

\* View.focusable / ContainerView.focusable
RECURSIVE Focusable(_, _)
Focusable(s, v) ==
    IF Kind(v) = "View" THEN s.focusable[v]
    ELSE \E i \in 1..Len(s.children[v]) : Focusable(s, s.children[v][i])

\* View.dirty / ContainerView.dirty (getter)
RECURSIVE DirtyRead(_, _)
DirtyRead(s, v) ==
    IF Kind(v) = "View" THEN s.dirty[v]
    ELSE s.dirty[v] \/ \E i \in 1..Len(s.children[v]) : DirtyRead(s, s.children[v][i])

\* View.dirty / ContainerView.dirty (setter)
RECURSIVE SetDirty(_, _, _)
RECURSIVE SetDirtyFrom(_, _, _, _)
SetDirtyFrom(s, k, i, d) ==
    IF i > Len(s.children[k]) THEN s
    ELSE SetDirtyFrom(SetDirty(s, s.children[k][i], d), k, i + 1, d)

SetDirty(s, v, d) ==
    LET s1 == [s EXCEPT !.dirty[v] = d]
    IN  IF Kind(v) = "View" THEN s1 ELSE SetDirtyFrom(s1, v, 1, d)

(***************************************************************************)
(* Focus.  The setter and the three hooks call each other; each operator   *)
(* takes the tree and returns the tree after the call.  Three fields of    *)
(* the tree describe the operation just done: raised the exception it      *)
(* raised ("no" for none), hooked whether it ran a focus hook, ret the     *)
(* value it returned.                                                      *)
(***************************************************************************)
RECURSIVE SetFocused(_, _, _)
RECURSIVE OnFocus(_, _)
RECURSIVE OnFocusFrom(_, _, _)
RECURSIVE OnUnfocus(_, _)
RECURSIVE OnUnfocusFrom(_, _, _)
RECURSIVE OnChildFocused(_, _, _)
RECURSIVE OnChildFocusedFrom(_, _, _, _)

\* ContainerView.onfocus, the loop from child i on: every focusable and
\* displayed child is assigned focused = True, in child order.
OnFocusFromLoop(s, k, i) ==
    LET c == s.children[k][i]
    IN  IF Focusable(s, c) /\ s.display[c]
        THEN OnFocusFrom(SetFocused(s, c, TRUE), k, i + 1)
        ELSE OnFocusFrom(s, k, i + 1)

OnFocusFrom(s, k, i) ==
    IF i > Len(s.children[k]) THEN s ELSE OnFocusFromLoop(s, k, i)

\* Grid.onfocus: the first cell, in scan order, holding a focusable and
\* displayed child; None when there is none.
GridFirstFocusable(s) ==
    LET ok == {x \in Cells : /\ s.grid[x] # None
                             /\ Focusable(s, s.grid[x])
                             /\ s.display[s.grid[x]]}
    IN  IF ok = {} THEN None ELSE s.grid[CHOOSE x \in ok : \A y \in ok : x <= y]

\* Grid.onfocus
GridOnFocus(s, g) ==
    IF \E i \in 1..Len(s.children[g]) : s.focused[s.children[g][i]]
    THEN s
    ELSE IF GridFirstFocusable(s) = None THEN s
    ELSE SetFocused(s, GridFirstFocusable(s), TRUE)

\* View.onfocus / ContainerView.onfocus / Grid.onfocus
OnFocus(s, v) ==
    LET s1 == [s EXCEPT !.hooked = TRUE]
    IN  CASE Kind(v) = "View" -> s1
          [] Kind(v) = "ContainerView" -> OnFocusFrom(s1, v, 1)
          [] Kind(v) = "Grid" -> GridOnFocus(s1, v)

\* ContainerView.onunfocus: every child is assigned focused = False.
OnUnfocusFrom(s, k, i) ==
    IF i > Len(s.children[k]) THEN s
    ELSE OnUnfocusFrom(SetFocused(s, s.children[k][i], FALSE), k, i + 1)

\* View.onunfocus / ContainerView.onunfocus
OnUnfocus(s, v) ==
    LET s1 == [s EXCEPT !.hooked = TRUE]
    IN  IF Kind(v) = "View" THEN s1 ELSE OnUnfocusFrom(s1, v, 1)

\* ContainerView.onchildfocused, the loop over the children from child i on.
OnChildFocusedFrom(s, k, cf, i) ==
    IF i > Len(s.children[k]) THEN s
    ELSE LET c == s.children[k][i]
         IN  IF s.focused[c] /\ c # cf
             THEN OnChildFocusedFrom(SetFocused(s, c, FALSE), k, cf, i + 1)
             ELSE OnChildFocusedFrom(s, k, cf, i + 1)

\* onchildfocused that unfocuses the siblings and stops there.
OnChildFocusedNoUp(s, k, cf) ==
    IF Kind(k) = "View" THEN [s EXCEPT !.hooked = TRUE]
    ELSE OnChildFocusedFrom([s EXCEPT !.hooked = TRUE], k, cf, 1)

\* View.onchildfocused / ContainerView.onchildfocused
OnChildFocused(s, k, cf) ==
    LET s1 == [s EXCEPT !.hooked = TRUE]
    IN  IF Kind(k) = "View" THEN s1
        ELSE LET s2 == OnChildFocusedFrom(s1, k, cf, 1)
                 s3 == [s2 EXCEPT !.focused[k] = TRUE]
             IN  IF s3.parent[k] # None
                 THEN OnChildFocused(s3, s3.parent[k], k)
                 ELSE s3

\* View.focused (setter), the part after the two early exits.
SetFocusedChange(s, v, f) ==
    LET s1 == [s EXCEPT !.focused[v] = f]
    IN  IF f
        THEN LET s2 == OnFocus(s1, v)
             IN  IF s2.parent[v] # None
                 THEN OnChildFocused(s2, s2.parent[v], v)
                 ELSE s2
        ELSE OnUnfocus(s1, v)

\* The setter without its focusable check.
SetFocusedUnchecked(s, v, f) ==
    IF s.focused[v] = f THEN s ELSE SetFocusedChange(s, v, f)

\* View.focused (setter)
SetFocused(s, v, f) ==
    IF s.focused[v] = f THEN s
    ELSE IF f /\ ~Focusable(s, v) THEN [s EXCEPT !.raised = "NotImplementedError"]
    ELSE SetFocusedChange(s, v, f)

\* ContainerView._focused_child_index: the index of the first focused child,
\* None when no child is focused (indices count from 1 here).
FocusedChildIndex(s, k) ==
    LET fs == {i \in 1..Len(s.children[k]) : s.focused[s.children[k][i]]}
    IN  IF fs = {} THEN None ELSE CHOOSE i \in fs : \A j \in fs : i <= j

\* ContainerView.focused_child
FocusedChild(s, k) ==
    IF FocusedChildIndex(s, k) = None THEN None
    ELSE s.children[k][FocusedChildIndex(s, k)]

\* The while loop of focus_next without the comparison of zindex.
RECURSIVE FocusWalkAnyZ(_, _, _, _, _)
FocusWalkAnyZ(s, k, c, i, step) ==
    IF i < 1 \/ i > Len(s.children[k]) THEN None
    ELSE IF Focusable(s, s.children[k][i]) /\ s.display[s.children[k][i]] THEN i
    ELSE FocusWalkAnyZ(s, k, c, i + step, step)

\* ContainerView.focus_next, the while loop: the index of the child that gets
\* focus, walking from index i by step; None when the walk leaves the list.
RECURSIVE FocusWalk(_, _, _, _, _)
FocusWalk(s, k, c, i, step) ==
    IF i < 1 \/ i > Len(s.children[k]) THEN None
    ELSE LET ci == s.children[k][i]
         IN  IF /\ Focusable(s, ci)
                /\ s.display[ci]
                /\ (c = None \/ s.zindex[ci] = s.zindex[c])
             THEN i
             ELSE FocusWalk(s, k, c, i + step, step)

\* ContainerView.focus_next: where the walk starts.  "if not i: i = 0" maps
\* both no focused child and a focused first child to the first index.
FocusStart(s, k, step) ==
    (IF FocusedChildIndex(s, k) = None THEN 1 ELSE FocusedChildIndex(s, k)) + step

\* ContainerView.focus_next / focus_prev: the value returned.
FocusNextRet(s, k, step) ==
    IF Len(s.children[k]) = 0 THEN "None"
    ELSE IF FocusWalk(s, k, FocusedChild(s, k), FocusStart(s, k, step), step) = None
    THEN "False"
    ELSE "True"

\* ContainerView.focus_next / focus_prev: the tree afterwards.
FocusNext(s, k, step) ==
    LET s1 == [s EXCEPT !.ret = FocusNextRet(s, k, step)]
    IN  IF s1.ret # "True" THEN s1
        ELSE SetFocused(s1,
                s.children[k][FocusWalk(s, k, FocusedChild(s, k), FocusStart(s, k, step), step)],
                TRUE)

(***************************************************************************)
(* Tree mutation and the layout pass, as far as they touch the tree.       *)
(***************************************************************************)
\* A fresh operation: nothing raised, no hook run, nothing returned yet.
Begin(s) == [s EXCEPT !.raised = "no", !.hooked = FALSE, !.ret = "None"]

\* add_child without "self.dirty = True".
AddChildKeepsDirty(s, k, c) ==
    [s EXCEPT !.parent[c] = k, !.children[k] = Append(@, c)]

\* ContainerView.add_child
AddChildOp(s, k, c) ==
    LET s1 == [s EXCEPT !.parent[c] = k, !.children[k] = Append(@, c)]
    IN  SetDirty(s1, k, TRUE)

\* ContainerView.remove_child, from "self.children.remove(c)" on.
RemoveChildTail(s, k, c, f) ==
    LET s1 == [s EXCEPT !.children[k] = ListRemove(@, c)]
        s2 == IF f THEN OnFocus(s1, k) ELSE s1
    IN  SetDirty(s2, k, TRUE)

\* ContainerView.remove_child.  list.remove raises ValueError when c is not a
\* child of k; the two assignments before it have taken effect by then.
RemoveChildOp(s, k, c) ==
    LET f  == s.focused[c]
        s1 == SetFocused([s EXCEPT !.parent[c] = None], c, FALSE)
    IN  IF c \in Range(s1.children[k])
        THEN RemoveChildTail(s1, k, c, f)
        ELSE [s1 EXCEPT !.raised = "ValueError"]

\* Grid.set (the cell table of the tree keeps the child of each cell).
GridSetOp(s, g, x, child) ==
    LET s1 == IF s.grid[x] # None THEN RemoveChildOp(s, g, s.grid[x]) ELSE s
    IN  IF s1.raised # "no" THEN s1
        ELSE AddChildOp([s1 EXCEPT !.grid[x] = child], g, child)

\* list.sort(key = zindex): a stable insertion sort.
RECURSIVE InsertByZ(_, _, _)
InsertByZ(sorted, c, z) ==
    IF sorted = <<>> THEN <<c>>
    ELSE IF z[Head(sorted)] <= z[c]
    THEN <<Head(sorted)>> \o InsertByZ(Tail(sorted), c, z)
    ELSE <<c>> \o sorted

RECURSIVE SortByZ(_, _)
SortByZ(cs, z) ==
    IF cs = <<>> THEN <<>>
    ELSE InsertByZ(SortByZ(SubSeq(cs, 1, Len(cs) - 1), z), cs[Len(cs)], z)

\* ContainerView.recalc on the tree: the children are sorted and the dirty
\* flag is cleared on the container and below it (the canvases are the
\* subject of SpecLayout and SpecGrid).
RecalcOp(s, k) ==
    IF DirtyRead(s, k)
    THEN SetDirty([s EXCEPT !.children[k] = SortByZ(@, s.zindex)], k, FALSE)
    ELSE s

(***************************************************************************)
(* The actions of the tree.                                                *)
(***************************************************************************)
\* v.focused = f
AssignFocused(v, f) ==
    /\ tree' = SetFocused(Begin(tree), v, f)
    /\ UNCHANGED <<lay, grd, ev, wid>>

\* k.focus_next() / k.focus_prev()
DoFocusNext(k, step) ==
    /\ tree' = FocusNext(Begin(tree), k, step)
    /\ UNCHANGED <<lay, grd, ev, wid>>

\* k.add_child(c), c a view that is in no tree yet
DoAddChild(k, c) ==
    /\ Kind(k) = "ContainerView"
    /\ c # Root
    /\ tree.parent[c] = None
    /\ c \notin Range(tree.children[k])
    /\ tree' = AddChildOp(Begin(tree), k, c)
    /\ UNCHANGED <<lay, grd, ev, wid>>

\* k.remove_child(c), c a child of k
DoRemoveChild(k, c) ==
    /\ c \in Range(tree.children[k])
    /\ tree' = RemoveChildOp(Begin(tree), k, c)
    /\ UNCHANGED <<lay, grd, ev, wid>>

\* grid.set(x, 0, child), child a leaf that is in no tree yet
DoGridSet(x, child) ==
    /\ Kind(child) = "View"
    /\ tree.parent[child] = None
    /\ child \notin Range(tree.children[Root])
    /\ child \notin Range(tree.children[TheGrid])
    /\ tree' = GridSetOp(Begin(tree), TheGrid, x, child)
    /\ UNCHANGED <<lay, grd, ev, wid>>

\* v.focusable = b (View.focusable setter; containers derive theirs)
AssignFocusable(v, b) ==
    /\ Kind(v) = "View"
    /\ tree.focusable[v] # b
    /\ tree' = [Begin(tree) EXCEPT !.focusable[v] = b]
    /\ UNCHANGED <<lay, grd, ev, wid>>

\* v.display = b
AssignDisplay(v, b) ==
    /\ Kind(v) = "View"
    /\ tree.display[v] # b
    /\ tree' = [Begin(tree) EXCEPT !.display[v] = b]
    /\ UNCHANGED <<lay, grd, ev, wid>>

\* v.dirty = True, as a widget asks for a new layout
AssignDirty(v) ==
    /\ ~tree.dirty[v]
    /\ tree' = SetDirty(Begin(tree), v, TRUE)
    /\ UNCHANGED <<lay, grd, ev, wid>>

\* One layout pass: the root is given its canvas, which runs root.recalc().
RootRecalc ==
    /\ DirtyRead(tree, Root)
    /\ tree' = RecalcOp(Begin(tree), Root)
    /\ UNCHANGED <<lay, grd, ev, wid>>

InitTree == tree = NewTree

\* The container and the grid of the other specifications stay as built.
InitLay == lay = [kind |-> "ContainerView", children |-> <<>>]

InitGrd == grd = [width |-> 0, height |-> 0]

\* No event has been fired.
InitEv == ev = [fired |-> <<>>, from |-> None, consumers |-> {}]

\* No widget has been built.
InitWid == wid = [members |-> <<>>]

Init == InitTree /\ InitLay /\ InitGrd /\ InitEv /\ InitWid

Next ==
    \/ \E v \in Views, f \in BOOLEAN : AssignFocused(v, f)
    \/ \E k \in Containers, step \in {1, -1} : DoFocusNext(k, step)
    \/ \E k \in Containers, c \in Views : DoAddChild(k, c)
    \/ \E k \in Containers, c \in Views : DoRemoveChild(k, c)
    \/ \E x \in Cells, c \in Views : DoGridSet(x, c)
    \/ \E v \in Views, b \in BOOLEAN : AssignFocusable(v, b)
    \/ \E v \in Views, b \in BOOLEAN : AssignDisplay(v, b)

Spec == Init /\ [][Next]_vars

NextDirty ==
    \/ \E k \in Containers, c \in Views : DoAddChild(k, c)
    \/ \E k \in Containers, c \in Views : DoRemoveChild(k, c)
    \/ \E x \in Cells, c \in Views : DoGridSet(x, c)
    \/ \E v \in Views : AssignDirty(v)
    \/ RootRecalc

SpecDirty == Init /\ [][NextDirty]_vars

(***************************************************************************)
(* Properties of the tree.                                                 *)
(***************************************************************************)
FocusedChildren(s, k) == {i \in 1..Len(s.children[k]) : s.focused[s.children[k][i]]}

\* The children of k that onfocus may focus: focusable and displayed.
Eligible(s, k) ==
    {i \in 1..Len(s.children[k]) :
        Focusable(s, s.children[k][i]) /\ s.display[s.children[k][i]]}

\* The views below k in the tree, k included.
RECURSIVE Below(_, _)
Below(s, k) ==
    IF Kind(k) = "View" THEN {k}
    ELSE {k} \cup UNION {Below(s, s.children[k][i]) : i \in 1..Len(s.children[k])}

\* C1: in every reachable state at most one child of any container is
\* focused.
C1_SiblingFocusExclusive ==
    \A k \in Containers : Cardinality(FocusedChildren(tree, k)) <= 1

\* The tree after v.focused = True is assigned in the current state.
AfterFocus(v) == SetFocused(Begin(tree), v, TRUE)

\* C2 as stated: in every reachable state, focused = True on a view that is
\* not focusable raises, changes no focused flag and runs no hook.
C2_UnfocusableRaises ==
    \A v \in Views :
        ~Focusable(tree, v)
        => /\ AfterFocus(v).raised = "NotImplementedError"
           /\ AfterFocus(v).focused = tree.focused
           /\ ~AfterFocus(v).hooked

\* C2 as amended: in every reachable state, focused = True on a view that is
\* not focusable and not focused already raises, changes no focused flag and
\* runs no hook; on a view that is focused already the assignment raises
\* nothing and changes nothing either.
C2_UnfocusedUnfocusableRaises ==
    \A v \in Views :
        ~Focusable(tree, v)
        => /\ AfterFocus(v).raised = (IF tree.focused[v] THEN "no" ELSE "NotImplementedError")
           /\ AfterFocus(v).focused = tree.focused
           /\ AfterFocus(v).parent = tree.parent
           /\ AfterFocus(v).children = tree.children
           /\ ~AfterFocus(v).hooked

\* A focused assignment has just raised on an unfocused view that is not
\* focusable.
C2_Witness ==
    /\ tree.raised = "NotImplementedError"
    /\ \E v \in Views : ~tree.focused[v] /\ ~Focusable(tree, v)

\* C3: when a plain container none of whose children is focused gains focus,
\* the child focused afterwards is the first focusable and displayed child,
\* and no other child is focused.
C3_FirstEligibleChildFocused ==
    [][\A k \in Containers :
         (/\ AssignFocused(k, TRUE)
          /\ ~tree.focused[k]
          /\ Kind(k) = "ContainerView"
          /\ FocusedChildren(tree, k) = {}
          /\ Eligible(tree, k) # {})
         => FocusedChildren(tree', k)
              = {CHOOSE i \in Eligible(tree, k) : \A j \in Eligible(tree, k) : i <= j}]_vars

\* C4: after remove_child(c), and after Grid.set has replaced the occupant c
\* of a cell by another child, c is not focused and has no parent.
C4_DetachedIsUnfocused ==
    [][/\ \A k \in Containers, c \in Views :
            DoRemoveChild(k, c) => (~tree'.focused[c] /\ tree'.parent[c] = None)
       /\ \A x \in Cells, child \in Views :
            (/\ DoGridSet(x, child)
             /\ tree.grid[x] # None
             /\ tree.grid[x] # child
             /\ tree'.raised = "no")
            => (~tree'.focused[tree.grid[x]] /\ tree'.parent[tree.grid[x]] = None)]_vars

\* C6: a container's dirty reads true exactly when a flag at or below it is
\* set; v.dirty = True sets the flag of every view at or below v and the
\* root's recalc clears every flag below the root; after add_child or
\* remove_child on a container of the root's tree the root's dirty reads
\* true, and it goes on reading true until the root's recalc.
C6_DirtyPropagates ==
    [][/\ \A k \in Containers :
            DirtyRead(tree', k) <=> (\E d \in Below(tree', k) : tree'.dirty[d])
       /\ \A v \in Views :
            AssignDirty(v) => \A d \in Below(tree', v) : tree'.dirty[d]
       /\ RootRecalc => \A d \in Below(tree', Root) : ~tree'.dirty[d]
       /\ \A k \in Containers, c \in Views :
            ((DoAddChild(k, c) \/ DoRemoveChild(k, c)) /\ RootOf(tree, k) = Root)
            => DirtyRead(tree', Root)
       /\ (DirtyRead(tree, Root) /\ ~RootRecalc) => DirtyRead(tree', Root)]_vars

\* The root was laid out (its own flag is clear) and a child was then added
\* to or removed from a container below it: the root reads dirty through it.
C6_Witness ==
    /\ ~tree.dirty[Root]
    /\ tree.parent[TheGrid] = Root
    /\ tree.dirty[TheGrid]
    /\ DirtyRead(tree, Root)

(***************************************************************************)
(* Layout of one container.  lay is a container of one of the linear kinds *)
(* with leaf children of fixed minimum size (Spacer(e, e, hstretch = st,    *)
(* vstretch = st)); canvases are rectangles [x, y, w, h] in the            *)
(* coordinates of the canvas they are cut from.                            *)
(***************************************************************************)
MaxChildren == 3

MaxSize == 3

MaxCanvas == 10

HOR_LEFT == 1

HOR_MID == 2

HOR_RIGHT == 3

VER_TOP == 1

VER_MID == 2

VER_BOT == 3

LayKinds == {"ContainerView", "Align", "Box", "Vertical", "Horizontal"}

\* View._canvas before any canvas is assigned (None in the source).
NoCanvas == [set |-> FALSE, x |-> 0, y |-> 0, w |-> 0, h |-> 0]

\* Spacer.__init__ on top of View.__init__
NewChild(e, st) ==
    [w |-> e, h |-> e, hstretch |-> st, vstretch |-> st, zindex |-> 0,
     display |-> TRUE, dirty |-> TRUE, canvas |-> NoCanvas]

ChildChoices == {NewChild(e, st) : e \in 0..MaxSize, st \in BOOLEAN}

\* The list self.children after add_child(f[1]), ..., add_child(f[n]).
RECURSIVE ChildList(_, _)
ChildList(f, n) == IF n = 0 THEN <<>> ELSE Append(ChildList(f, n - 1), f[n])

\* ContainerView.__init__ / Align.__init__ / Box.__init__ / Vertical.__init__ /
\* Horizontal.__init__, followed by one add_child per child.
NewContainer(kind, align, cs) ==
    [kind |-> kind, halign |-> align, valign |-> align, canvas |-> NoCanvas,
     dirty |-> TRUE, shouldclear |-> TRUE, children |-> cs]

\* The alignments a container of a kind is built with (both axes alike).
Alignments(kind) ==
    IF kind = "Align" THEN {HOR_LEFT, HOR_MID, HOR_RIGHT} ELSE {HOR_MID}

\* max(...) over the children, as in ContainerView.size
RECURSIVE MaxOf(_)
MaxOf(q) == IF Len(q) = 1 THEN q[1] ELSE Max(q[1], MaxOf(Tail(q)))

Widths(c) == [i \in 1..Len(c.children) |-> c.children[i].w]

Heights(c) == [i \in 1..Len(c.children) |-> c.children[i].h]

\* ContainerView.size / Box.size (no title) / Vertical.size / Horizontal.size
LaySize(c) ==
    IF c.children = <<>> THEN
        IF c.kind = "Box" THEN <<4, 2>> ELSE <<0, 0>>
    ELSE CASE c.kind = "Box" -> <<MaxOf(Widths(c)) + 4, MaxOf(Heights(c)) + 2>>
           [] c.kind = "Vertical" -> <<MaxOf(Widths(c)), SumSeq(Heights(c))>>
           [] c.kind = "Horizontal" -> <<SumSeq(Widths(c)), MaxOf(Heights(c))>>
           [] OTHER -> <<MaxOf(Widths(c)), MaxOf(Heights(c))>>

\* ContainerView.dirty (getter)
LayDirty(c) == c.dirty \/ \E i \in 1..Len(c.children) : c.children[i].dirty

\* ContainerView.dirty (setter)
LaySetDirty(c, d) ==
    [c EXCEPT !.dirty = d,
              !.children = [i \in 1..Len(c.children) |-> [c.children[i] EXCEPT !.dirty = d]]]

\* canvas.SubCanvas(parent, x, y, width, height): positioned in the parent and
\* clamped to the parent's size.
SubCanvas(parent, x, y, width, height) ==
    [set |-> TRUE, x |-> x, y |-> y,
     w |-> Max(0, Min(width, parent.w - x)),
     h |-> Max(0, Min(height, parent.h - y))]

\* Python 3 round(n / d) for d > 0: to the nearest integer, halves to even.
RoundDiv(n, d) ==
    LET q == n \div d
        r == n % d
    IN  IF 2 * r < d THEN q
        ELSE IF 2 * r > d THEN q + 1
        ELSE IF q % 2 = 0 THEN q ELSE q + 1

\* int(a / 2 - b / 2): truncation towards zero.
IntHalfDiff(a, b) == IF a >= b THEN (a - b) \div 2 ELSE 0 - ((b - a) \div 2)

\* list.sort(key = zindex) on child records: a stable insertion sort.
RECURSIVE InsertChildByZ(_, _)
InsertChildByZ(sorted, c) ==
    IF sorted = <<>> THEN <<c>>
    ELSE IF Head(sorted).zindex <= c.zindex
    THEN <<Head(sorted)>> \o InsertChildByZ(Tail(sorted), c)
    ELSE <<c>> \o sorted

RECURSIVE SortChildrenByZ(_)
SortChildrenByZ(cs) ==
    IF cs = <<>> THEN <<>>
    ELSE InsertChildByZ(SortChildrenByZ(SubSeq(cs, 1, Len(cs) - 1)), cs[Len(cs)])

\* "for c in self.children: c.canvas = subc"
GiveAll(cs, subc) == [i \in 1..Len(cs) |-> [cs[i] EXCEPT !.canvas = subc]]

\* The canvas of a container, as its children see it.
Whole(cv) == [set |-> TRUE, x |-> 0, y |-> 0, w |-> cv.w, h |-> cv.h]

\* ContainerView.recalc
PlainRecalc(c) ==
    IF LayDirty(c)
    THEN LaySetDirty([c EXCEPT !.children = GiveAll(SortChildrenByZ(@), Whole(c.canvas)),
                               !.shouldclear = TRUE],
                     FALSE)
    ELSE c

\* Align.recalc
AlignRecalc(c) ==
    LET x == CASE c.halign = HOR_LEFT -> 0
               [] c.halign = HOR_MID -> IntHalfDiff(c.canvas.w, LaySize(c)[1])
               [] OTHER -> c.canvas.w - LaySize(c)[1]
        y == CASE c.valign = VER_TOP -> 0
               [] c.valign = VER_MID -> IntHalfDiff(c.canvas.h, LaySize(c)[2])
               [] OTHER -> c.canvas.h - LaySize(c)[2]
    IN  [c EXCEPT !.children =
            GiveAll(@, SubCanvas(c.canvas, x, y, LaySize(c)[1], LaySize(c)[2]))]

\* Box.recalc
BoxRecalc(c) ==
    [c EXCEPT !.children =
        GiveAll(@, SubCanvas(c.canvas, 2, 1, c.canvas.w - 4, c.canvas.h - 2))]

\* The extent of a record along the axis a line-up runs, and across it.
Along(axis, r) == IF axis = "Vertical" THEN r.h ELSE r.w

Stretch(axis, r) == IF axis = "Vertical" THEN r.vstretch ELSE r.hstretch

\* anyc = sum(c.vstretch for c in self.children)
StretchCount(axis, cs) == Cardinality({i \in 1..Len(cs) : Stretch(axis, cs[i])})

\* remh = self.canvas.height - sum(c.size[1] for c in self.children)
Remaining(axis, c) ==
    Along(axis, c.canvas) - SumSeq([i \in 1..Len(c.children) |-> Along(axis, c.children[i])])

\* perc = round(remh / anyc) if anyc else 0
Share(axis, c) ==
    IF StretchCount(axis, c.children) = 0 THEN 0
    ELSE RoundDiv(Remaining(axis, c), StretchCount(axis, c.children))

\* What a stretching child is granted on top of its minimum.
Grant(rem, perc) == IF rem > perc THEN perc ELSE rem

\* The canvas cut for a child at offset at with extent ch along the axis.
Slice(axis, cv, at, ch) ==
    IF axis = "Vertical" THEN SubCanvas(cv, 0, at, cv.w, ch)
    ELSE SubCanvas(cv, at, 0, ch, cv.h)

\* Vertical.recalc / Horizontal.recalc, the loop from child i on, with rem
\* the budget left, perc the share and at the offset reached.
RECURSIVE LineUp(_, _, _, _, _, _, _)
LineUpChild(axis, cv, cs, i, rem, perc, at) ==
    LET min == Along(axis, cs[i])
        ch  == IF Stretch(axis, cs[i]) THEN Grant(rem, perc) + min ELSE min
        r2  == IF Stretch(axis, cs[i]) THEN rem - Grant(rem, perc) ELSE rem
    IN  LineUp(axis, cv, [cs EXCEPT ![i].canvas = Slice(axis, cv, at, ch)],
               i + 1, r2, perc, at + ch)

\* The loop without "if ch == 0: continue".
LineUpNoSkip(axis, cv, cs, i, rem, perc, at) ==
    IF i > Len(cs) THEN cs ELSE LineUpChild(axis, cv, cs, i, rem, perc, at)

LineUp(axis, cv, cs, i, rem, perc, at) ==
    IF i > Len(cs) THEN cs
    ELSE IF Along(axis, cs[i]) = 0 THEN LineUp(axis, cv, cs, i + 1, rem, perc, at)
    ELSE LineUpChild(axis, cv, cs, i, rem, perc, at)

\* Vertical.recalc / Horizontal.recalc
LinearRecalc(c) ==
    [c EXCEPT !.children =
        LineUp(c.kind, c.canvas, @, 1, Remaining(c.kind, c), Share(c.kind, c), 0)]

\* recalc(), by the kind of the container.
Recalc(c) ==
    CASE c.kind = "ContainerView" -> PlainRecalc(c)
      [] c.kind = "Align" -> AlignRecalc(c)
      [] c.kind = "Box" -> BoxRecalc(c)
      [] OTHER -> LinearRecalc(c)

\* View.canvas (setter): the container is given a canvas of e by e cells.
LayAssignCanvas(e) ==
    /\ ~lay.canvas.set
    /\ lay' = Recalc([lay EXCEPT !.canvas = [set |-> TRUE, x |-> 0, y |-> 0, w |-> e, h |-> e]])
    /\ UNCHANGED <<tree, grd, ev, wid>>

InitLayout ==
    /\ tree = NewTree
    /\ InitGrd
    /\ InitEv
    /\ InitWid
    /\ \E kind \in LayKinds, n \in 0..MaxChildren :
         \E align \in Alignments(kind), f \in [1..n -> ChildChoices] :
            lay = NewContainer(kind, align, ChildList(f, n))

NextLayout == \E e \in 0..MaxCanvas : LayAssignCanvas(e)

SpecLayout == InitLayout /\ [][NextLayout]_vars

(***************************************************************************)
(* Properties of the layout of one container.                              *)
(***************************************************************************)
\* Rectangle r, cut from the canvas cv, lies inside cv.
Within(r, cv) ==
    /\ r.x >= 0
    /\ r.y >= 0
    /\ r.x + r.w <= cv.w
    /\ r.y + r.h <= cv.h

\* C5: after the recalc of a dirty container of any kind on its canvas, the
\* container's dirty reads false and every child has a canvas inside the
\* container's canvas.
C5_RecalcCleansAndPlaces ==
    lay.canvas.set
    => /\ ~LayDirty(lay)
       /\ \A i \in 1..Len(lay.children) :
            /\ lay.children[i].canvas.set
            /\ Within(lay.children[i].canvas, lay.canvas)

\* What child i was granted beyond its minimum extent along the axis.
Extra(axis, ch) ==
    IF ch.canvas.set THEN Along(axis, ch.canvas) - Along(axis, ch) ELSE 0

Stretching(axis, c) == {i \in 1..Len(c.children) : Stretch(axis, c.children[i])}

\* C7: in a Vertical or Horizontal with at least one stretching child, all
\* children of non-zero minimum extent and a budget R >= 0, the extras granted
\* to the stretching children sum to R.
C7_SharesSumToBudget ==
    (/\ lay.canvas.set
     /\ lay.kind \in {"Vertical", "Horizontal"}
     /\ Stretching(lay.kind, lay) # {}
     /\ \A i \in 1..Len(lay.children) : Along(lay.kind, lay.children[i]) > 0
     /\ Remaining(lay.kind, lay) >= 0)
    => SumSeq([i \in 1..Len(lay.children) |->
                 IF i \in Stretching(lay.kind, lay)
                 THEN Extra(lay.kind, lay.children[i]) ELSE 0])
         = Remaining(lay.kind, lay)

\* Scenario A: a Vertical with children of minimum heights 2, 0, 3, the
\* middle one the only one that stretches, laid out on a canvas of height 10.
ScenarioA ==
    /\ lay.kind = "Vertical"
    /\ Heights(lay) = <<2, 0, 3>>
    /\ [i \in 1..Len(lay.children) |-> lay.children[i].vstretch] = <<FALSE, TRUE, FALSE>>
    /\ lay.canvas.set
    /\ lay.canvas.h = 10

GridWidth == 3
GridHeight == 2
\* Largest minimum width and height of a child placed in the grid.
MaxCellWidth == 2
MaxCellHeight == 1
\* Largest number of occupied cells.
MaxCells == 3
\* Width and height of the canvas the grid is laid out on.
GridCanvas == 8

Cols == 0..(GridWidth - 1)
Rows == 0..(GridHeight - 1)

\* An empty slot of self.grid (None in the code).
NoCell == [set |-> FALSE, w |-> 0, h |-> 0, colspan |-> 1, rowspan |-> 1,
           canvas |-> NoCanvas]

\* Grid.Cell(child, colspan, rowspan), the child given by its size (w, h).
Cell(w, h, colspan, rowspan) ==
    [set |-> TRUE, w |-> w, h |-> h, colspan |-> colspan, rowspan |-> rowspan,
     canvas |-> NoCanvas]

\* The children a cell may hold and the spans it may have.
CellChoices ==
    {Cell(w, h, colspan, rowspan) :
        w \in 0..MaxCellWidth, h \in 0..MaxCellHeight,
        colspan \in 1..GridWidth, rowspan \in 1..GridHeight}

\* The sets of at most MaxCells slots of the table.
Places == {P \in SUBSET (Cols \X Rows) : Cardinality(P) <= MaxCells}

\* Grid(width, height) on its canvas after set(x, y, ...) for every slot
\* <<x, y>> of P with the cell f[<<x, y>>]; no precalc has run.
NewGrid(P, f) ==
    [grid |-> [y \in Rows |-> [x \in Cols |->
                 IF <<x, y>> \in P THEN f[<<x, y>>] ELSE NoCell]],
     cws |-> [x \in Cols |-> 0],
     rhs |-> [y \in Rows |-> 0],
     size |-> <<0, 0>>,
     canvas |-> [set |-> TRUE, x |-> 0, y |-> 0, w |-> GridCanvas, h |-> GridCanvas],
     phase |-> "built",
     raised |-> "no"]

Occupied(g) == {<<x, y>> \in Cols \X Rows : g[y][x].set}

\* tot += self._cws[i + oc] for oc in range(span)
RECURSIVE SpanTotal(_, _, _)
SpanTotal(ws, i, span) ==
    IF span = 0 THEN 0 ELSE ws[i + span - 1] + SpanTotal(ws, i, span - 1)

\* for oc in range(span): ws[i + oc] += spl
GrowEvenly(ws, i, span, spl) ==
    [k \in DOMAIN ws |-> IF k >= i /\ k < i + span THEN ws[k] + spl ELSE ws[k]]

\* The rest handed out from the leftmost spanned column instead.
RECURSIVE GrowLeftmostFrom(_, _, _)
GrowLeftmostFrom(ws, k, over) ==
    IF over <= 0 THEN ws
    ELSE GrowLeftmostFrom([ws EXCEPT ![k] = @ + 1], k + 1, over - 1)

GrowLeftmost(ws, i, oc, over) == GrowLeftmostFrom(ws, i, over)

\* for oc in range(span - 1, 0, -1): if over <= 0: break; ws[i + oc] += 1
RECURSIVE GrowRightmost(_, _, _, _)
GrowRightmost(ws, i, oc, over) ==
    IF oc < 1 \/ over <= 0 THEN ws
    ELSE GrowRightmost([ws EXCEPT ![i + oc] = @ + 1], i, oc - 1, over - 1)

\* The body of the loops of precalc without the split of the rest.
FitSpanEvenly(ws, i, span, need) ==
    LET tot == SpanTotal(ws, i, span)
    IN  IF tot < need THEN GrowEvenly(ws, i, span, (need - tot) \div span)
        ELSE ws

\* The body of the loops of precalc for one cell: grow the columns (rows)
\* i .. i + span - 1 until they hold need.
FitSpan(ws, i, span, need) ==
    LET tot == SpanTotal(ws, i, span)
        over == need - tot
        spl == over \div span
    IN  IF tot < need
        THEN GrowRightmost(GrowEvenly(ws, i, span, spl), i, span - 1,
                           over - spl * span)
        ELSE ws

\* The column pass of precalc: for colspan, for column i, for ch in column.
RECURSIVE ColPass(_, _, _, _, _)
ColPass(g, cws, colspan, i, y) ==
    IF colspan > GridWidth THEN cws
    ELSE IF i >= GridWidth THEN ColPass(g, cws, colspan + 1, 0, 0)
    ELSE IF y >= GridHeight THEN ColPass(g, cws, colspan, i + 1, 0)
    ELSE IF ~g[y][i].set \/ g[y][i].colspan # colspan
         THEN ColPass(g, cws, colspan, i, y + 1)
    ELSE ColPass(g, FitSpan(cws, i, colspan, g[y][i].w), colspan, i, y + 1)

\* The row pass of precalc: for rowspan, for row i, for ch in row.
RECURSIVE RowPass(_, _, _, _, _)
RowPass(g, rhs, rowspan, i, x) ==
    IF rowspan > GridHeight THEN rhs
    ELSE IF i >= GridHeight THEN RowPass(g, rhs, rowspan + 1, 0, 0)
    ELSE IF x >= GridWidth THEN RowPass(g, rhs, rowspan, i + 1, 0)
    ELSE IF ~g[i][x].set \/ g[i][x].rowspan # rowspan
         THEN RowPass(g, rhs, rowspan, i, x + 1)
    ELSE RowPass(g, FitSpan(rhs, i, rowspan, g[i][x].h), rowspan, i, x + 1)

\* sum(self._cws)
Total(ws) == SpanTotal(ws, 0, Cardinality(DOMAIN ws))

\* Grid.precalc on the cell table g: column widths, row heights and size.
Precalc(g) ==
    LET cws == ColPass(g, [x \in Cols |-> 0], 1, 0, 0)
        rhs == RowPass(g, [y \in Rows |-> 0], 1, 0, 0)
    IN  [cws |-> cws, rhs |-> rhs, size |-> <<Total(cws), Total(rhs)>>]

\* atx and aty in recalc when it reaches the cell at index i.
Offset(ws, i) == SpanTotal(ws, 0, i)

\* The assert of recalc for the cell at column x of row y.
CellFits(s, x, y) ==
    /\ SpanTotal(s.cws, x, s.grid[y][x].colspan) >= s.grid[y][x].w
    /\ SpanTotal(s.rhs, y, s.grid[y][x].rowspan) >= s.grid[y][x].h

\* Grid.recalc: the cells in row order, stopped by the first failed assert.
RECURSIVE RecalcFrom(_, _, _)
RecalcFrom(s, y, x) ==
    IF y >= GridHeight THEN s
    ELSE IF x >= GridWidth THEN RecalcFrom(s, y + 1, 0)
    ELSE IF ~s.grid[y][x].set THEN RecalcFrom(s, y, x + 1)
    ELSE IF ~CellFits(s, x, y) THEN [s EXCEPT !.raised = "AssertionError"]
    ELSE RecalcFrom(
            [s EXCEPT !.grid[y][x].canvas =
                SubCanvas(s.canvas, Offset(s.cws, x), Offset(s.rhs, y),
                          SpanTotal(s.cws, x, s.grid[y][x].colspan),
                          SpanTotal(s.rhs, y, s.grid[y][x].rowspan))],
            y, x + 1)

\* Grid.precalc()
GridPrecalc ==
    /\ grd.phase = "built"
    /\ LET p == Precalc(grd.grid)
       IN  grd' = [grd EXCEPT !.cws = p.cws, !.rhs = p.rhs, !.size = p.size,
                              !.phase = "sized"]
    /\ UNCHANGED <<tree, lay, ev, wid>>

\* Grid.recalc() right after precalc
GridRecalc ==
    /\ grd.phase = "sized"
    /\ grd' = [RecalcFrom(grd, 0, 0) EXCEPT !.phase = "laid"]
    /\ UNCHANGED <<tree, lay, ev, wid>>

\* Every span stays inside the table.
InitGrid ==
    /\ tree = NewTree
    /\ InitLay
    /\ InitEv
    /\ InitWid
    /\ \E P \in Places : \E f \in [P -> CellChoices] :
         /\ \A <<x, y>> \in P : /\ x + f[<<x, y>>].colspan <= GridWidth
                                /\ y + f[<<x, y>>].rowspan <= GridHeight
         /\ grd = NewGrid(P, f)

NextGrid ==
    \/ GridPrecalc
    \/ GridRecalc

SpecGrid == InitGrid /\ [][NextGrid]_vars

(***************************************************************************)
(* Properties of the grid.                                                 *)
(***************************************************************************)
\* C9: after precalc the columns spanned by every placed cell are together at
\* least as wide as the cell's child and the rows it spans at least as high,
\* and the recalc that follows raises no AssertionError.
C9_GridConsistent ==
    /\ grd.phase = "sized"
       => \A <<x, y>> \in Occupied(grd.grid) : CellFits(grd, x, y)
    /\ grd.phase = "laid" => grd.raised = "no"

\* A recalc has followed the precalc of a grid holding a cell that spans two
\* columns and whose child's width is odd.
C9_Witness ==
    /\ grd.phase = "laid"
    /\ \E <<x, y>> \in Occupied(grd.grid) :
         /\ grd.grid[y][x].colspan = 2
         /\ grd.grid[y][x].w = 1
         /\ grd.grid[y][x].canvas.set

\* The cell table g with the child at (x, y) one wider, or one higher.
Wider(g, x, y) == [g EXCEPT ![y][x].w = @ + 1]
Higher(g, x, y) == [g EXCEPT ![y][x].h = @ + 1]

AtLeast(a, b) == a[1] >= b[1] /\ a[2] >= b[2]

\* C10: a grid that differs from the one just sized only in that one child's
\* minimum width, or minimum height, is larger gets from precalc a size at
\* least as large in each dimension.
C10_GridSizeMonotonic ==
    grd.phase = "sized"
    => \A <<x, y>> \in Occupied(grd.grid) :
         /\ AtLeast(Precalc(Wider(grd.grid, x, y)).size, grd.size)
         /\ AtLeast(Precalc(Higher(grd.grid, x, y)).size, grd.size)

(***************************************************************************)
(* The split of a shortfall over the columns a cell spans, on its own: the *)
(* body of the loops of Grid.precalc applied to one cell and any column    *)
(* widths reached before it.                                               *)
(***************************************************************************)
\* Number of columns of the grid whose cell is sized.
SplitCols == 3
\* Largest width a column has before the cell is sized.
MaxColWidth == 2
\* Largest minimum width of the cell's child.
MaxNeed == 10

\* The cell at column i spanning span columns, its child need wide, met by
\* precalc when the columns are ws wide.
NewSplit(ws, i, span, need) ==
    [ws |-> ws, i |-> i, span |-> span, need |-> need, out |-> ws, phase |-> "met"]

\* The iteration of precalc for the cell.
DoFitSpan ==
    /\ grd.phase = "met"
    /\ grd' = [grd EXCEPT !.out = FitSpan(grd.ws, grd.i, grd.span, grd.need),
                          !.phase = "sized"]
    /\ UNCHANGED <<tree, lay, ev, wid>>

InitSplit ==
    /\ tree = NewTree
    /\ InitLay
    /\ InitEv
    /\ InitWid
    /\ \E ws \in [0..(SplitCols - 1) -> 0..MaxColWidth], i \in 0..(SplitCols - 1),
          span \in 1..SplitCols, need \in 0..MaxNeed :
            /\ i + span <= SplitCols
            /\ grd = NewSplit(ws, i, span, need)

NextSplit == DoFitSpan

SpecSplit == InitSplit /\ [][NextSplit]_vars

\* What the spanned columns lack for the cell's child.
Shortfall == grd.need - SpanTotal(grd.ws, grd.i, grd.span)

\* C11: when the cell needs s > 0 more than its k spanned columns hold, each
\* spanned column grows by floor(s / k), the s mod k rightmost spanned columns
\* by one more, no other column changes and the spanned columns then hold
\* exactly the child's width; two columns of width 0 spanned by a child of
\* width 10 become 5 and 5 wide.
C11_ShortfallSplit ==
    (grd.phase = "sized" /\ Shortfall > 0)
    => /\ \A k \in DOMAIN grd.ws :
            grd.out[k] - grd.ws[k] =
                IF k < grd.i \/ k >= grd.i + grd.span THEN 0
                ELSE (Shortfall \div grd.span)
                     + (IF k >= grd.i + grd.span - (Shortfall % grd.span) THEN 1 ELSE 0)
       /\ SpanTotal(grd.out, grd.i, grd.span) = grd.need
       /\ (/\ grd.span = 2
           /\ grd.need = 10
           /\ grd.ws[grd.i] = 0
           /\ grd.ws[grd.i + 1] = 0)
          => (grd.out[grd.i] = 5 /\ grd.out[grd.i + 1] = 5)

\* A cell spanning three columns has been sized with a shortfall that three
\* does not divide.
C11_Witness ==
    /\ grd.phase = "sized"
    /\ grd.span = 3
    /\ Shortfall % 3 = 2

(***************************************************************************)
(* The size a grid reports.                                                *)
(***************************************************************************)
\* C12: whenever the size of the grid is read, also right after the calls of
\* set that built it, it is the size its cells' children currently add up
\* to, the one precalc computes from them.
C12_GridSizeNeverStale == grd.size = Precalc(grd.grid).size

(***************************************************************************)
(* Event bubbling.  An event of a category that only handlers bound by the *)
(* application answer; consumers is the set of views whose fire reports    *)
(* the event consumed.                                                     *)
(***************************************************************************)
\* EventSource.fire(event) on view v: does a handler of v consume the event.
Fire(v, consumers) == v \in consumers

\* bubble without the test of what fire returns.
RECURSIVE BubbleAll(_, _, _, _)
BubbleAll(s, v, consumers, fired) ==
    IF s.parent[v] # None
    THEN BubbleAll(s, s.parent[v], consumers, Append(fired, v))
    ELSE Append(fired, v)

\* v.bubble(event): the views the event is fired on, in order.
RECURSIVE Bubble(_, _, _, _)
Bubble(s, v, consumers, fired) ==
    IF ~Fire(v, consumers) /\ s.parent[v] # None
    THEN Bubble(s, s.parent[v], consumers, Append(fired, v))
    ELSE Append(fired, v)

\* v.bubble(event)
DoBubble(v, consumers) ==
    /\ ev' = [fired |-> Bubble(tree, v, consumers, <<>>), from |-> v,
              consumers |-> consumers]
    /\ UNCHANGED <<tree, lay, grd, wid>>

NextBubble ==
    \/ \E k \in Containers, c \in Views : DoAddChild(k, c)
    \/ \E k \in Containers, c \in Views : DoRemoveChild(k, c)
    \/ \E x \in Cells, c \in Views : DoGridSet(x, c)
    \/ \E v \in Views, consumers \in SUBSET Views : DoBubble(v, consumers)

SpecBubble == Init /\ [][NextBubble]_vars

\* C13: every step that bubbles an event from a view fires it on that view
\* and then on each next ancestor, leaf to root, as long as the view before
\* did not consume it; the last view fired on is the first consumer on the
\* way up or, without one, the root.
C13_BubbleStopsAtConsumer ==
    [][ev' # ev
       => LET q == ev'.fired
              consumers == ev'.consumers
          IN  /\ Len(q) >= 1
              /\ q[1] = ev'.from
              /\ \A i \in 1..(Len(q) - 1) :
                   /\ q[i] \notin consumers
                   /\ q[i + 1] = tree.parent[q[i]]
              /\ \/ q[Len(q)] \in consumers
                 \/ tree.parent[q[Len(q)]] = None]_vars

\* An event bubbled from a leaf has been consumed by its parent, a view that
\* has a parent of its own.
C13_Witness ==
    /\ ev.from \in Leaves
    /\ Len(ev.fired) = 2
    /\ ev.fired[2] \in ev.consumers
    /\ tree.parent[ev.fired[2]] # None
    /\ tree.parent[ev.from] = ev.fired[2]

(***************************************************************************)
(* Keyboard focus traversal.                                               *)
(***************************************************************************)
\* Largest zindex given to a view.
MaxZindex == 1

\* The keys ContainerView._onkey is registered for.
Keys == {"<up>", "<down>", "\t"}

\* The step _onkey takes for a key: focus_prev for Up and Shift+Tab,
\* focus_next for Down and Tab.
KeyStep(val, shift) ==
    IF val = "<up>" \/ (val = "\t" /\ shift) THEN -1 ELSE 1

\* ContainerView._onkey on container k; taken tells whether a focused leaf
\* consumes the key, a focused container runs its own _onkey.
RECURSIVE OnKey(_, _, _, _, _)
OnKey(s, k, val, shift, taken) ==
    LET fc == FocusedChild(s, k)
        s1 == IF fc = None \/ Kind(fc) = "View" THEN s
              ELSE OnKey(s, fc, val, shift, taken)
        handled == /\ fc # None
                   /\ IF Kind(fc) = "View" THEN taken ELSE s1.ret = "True"
    IN  IF handled THEN [s1 EXCEPT !.ret = "True"]
        ELSE FocusNext(s1, k, KeyStep(val, shift))

\* v.zindex = z
AssignZindex(v, z) ==
    /\ Kind(v) = "View"
    /\ tree.zindex[v] # z
    /\ tree' = [Begin(tree) EXCEPT !.zindex[v] = z]
    /\ UNCHANGED <<lay, grd, ev, wid>>

\* A key event fired on container k.
DoKey(k, val, shift, taken) ==
    /\ tree' = OnKey(Begin(tree), k, val, shift, taken)
    /\ UNCHANGED <<lay, grd, ev, wid>>

NextKeys ==
    \/ \E v \in Views, f \in BOOLEAN : AssignFocused(v, f)
    \/ \E k \in Containers, step \in {1, -1} : DoFocusNext(k, step)
    \/ \E k \in Containers, val \in Keys, shift \in BOOLEAN, taken \in BOOLEAN :
          DoKey(k, val, shift, taken)
    \/ \E k \in Containers, c \in Views : DoAddChild(k, c)
    \/ \E x \in Cells, c \in Views : DoGridSet(x, c)
    \/ \E v \in Views, b \in BOOLEAN : AssignFocusable(v, b)
    \/ \E v \in Views, b \in BOOLEAN : AssignDisplay(v, b)
    \/ \E v \in Views, z \in 0..MaxZindex : AssignZindex(v, z)

SpecKeys == Init /\ [][NextKeys]_vars

\* The children of k after (step 1) or before (step -1) its focused child
\* that are focusable, displayed and of the focused child's zindex.
Candidates(k, step) ==
    LET cs == tree.children[k]
        i0 == FocusedChildIndex(tree, k)
    IN  {j \in 1..Len(cs) :
            /\ (j - i0) * step > 0
            /\ Focusable(tree, cs[j])
            /\ tree.display[cs[j]]
            /\ tree.zindex[cs[j]] = tree.zindex[cs[i0]]}

\* The candidate nearest to the focused child.
Nearest(k, step) ==
    CHOOSE j \in Candidates(k, step) :
        \A i \in Candidates(k, step) : (i - j) * step >= 0

AfterFocusNext(k, step) == FocusNext(Begin(tree), k, step)

\* C14: in every reachable state where container k has one focused child,
\* focus_next (step 1) and focus_prev (step -1) return True and leave focused
\* the nearest candidate after resp. before that child, and it alone among
\* the children; without a candidate they return False and change no focused
\* flag.  Down or Tab that the focused leaf does not consume does what
\* focus_next does, Up or Shift+Tab what focus_prev does.
C14_FocusTraversalNoWrap ==
    \A k \in Containers, step \in {1, -1} :
        Cardinality(FocusedChildren(tree, k)) = 1
        => /\ IF Candidates(k, step) = {}
              THEN /\ AfterFocusNext(k, step).ret = "False"
                   /\ AfterFocusNext(k, step).focused = tree.focused
              ELSE /\ AfterFocusNext(k, step).ret = "True"
                   /\ FocusedChildren(AfterFocusNext(k, step), k) = {Nearest(k, step)}
           /\ AfterFocusNext(k, step).raised = "no"
           /\ Kind(FocusedChild(tree, k)) = "View"
              => /\ OnKey(Begin(tree), k, IF step = 1 THEN "<down>" ELSE "<up>",
                          FALSE, FALSE) = AfterFocusNext(k, step)
                 /\ OnKey(Begin(tree), k, "\t", step = -1, FALSE)
                      = AfterFocusNext(k, step)

\* focus_next or a key has just moved the focus of the root from its first
\* child past a child of another zindex to its third child.
C14_Witness ==
    /\ tree.ret = "True"
    /\ Len(tree.children[Root]) = 3
    /\ FocusedChildren(tree, Root) = {3}
    /\ tree.zindex[tree.children[Root][2]] # tree.zindex[tree.children[Root][3]]
    /\ tree.zindex[tree.children[Root][1]] = tree.zindex[tree.children[Root][3]]
    /\ Focusable(tree, tree.children[Root][2])
    /\ tree.display[tree.children[Root][2]]

(***************************************************************************)
(* Mouse routing in one container (a plain ContainerView or a Vertical).   *)
(***************************************************************************)
\* Largest number of children of the container.
MaxMouseChildren == 2
\* Width and height of the canvas the container is given.
MouseCanvas == 2

\* MouseEvent.shifted(x, y): the point in the coordinates of a canvas at x, y.
Shifted(pt, cv) == [x |-> pt.x - cv.x, y |-> pt.y - cv.y]

\* Canvas.contains(x, y)
Contains(cv, pt) == pt.x >= 0 /\ pt.x < cv.w /\ pt.y >= 0 /\ pt.y < cv.h

\* No mouse event has been routed.
NoMouse == [delivered |-> <<>>, raised |-> "no", x |-> 0, y |-> 0, routed |-> FALSE]

\* ContainerView._onmouse, the loop from child i down: the indices of the
\* children the event is fired on; a child that has no canvas yet stops the
\* loop with an AttributeError.
RECURSIVE MouseWalk(_, _, _, _, _)
MouseWalk(c, z, pt, i, out) ==
    IF i < 1 THEN out
    ELSE IF c.children[i].zindex # z THEN out
    ELSE IF ~c.children[i].canvas.set THEN [out EXCEPT !.raised = "AttributeError"]
    ELSE IF Contains(c.children[i].canvas, Shifted(pt, c.children[i].canvas))
    THEN MouseWalk(c, z, pt, i - 1, [out EXCEPT !.delivered = Append(@, i)])
    ELSE MouseWalk(c, z, pt, i - 1, out)

\* ContainerView._onmouse for a mouse event at pt
OnMouse(c, pt) ==
    LET out == [NoMouse EXCEPT !.x = pt.x, !.y = pt.y, !.routed = TRUE]
    IN  IF c.children = <<>> THEN out
        ELSE MouseWalk(c, c.children[Len(c.children)].zindex, pt,
                       Len(c.children), out)

\* container.add_child(View()) with the view's zindex set to z
MouseAddChild(z) ==
    /\ Len(lay.children) < MaxMouseChildren
    /\ lay' = LaySetDirty(
                [lay EXCEPT !.children = Append(@, [NewChild(1, FALSE) EXCEPT !.zindex = z])],
                TRUE)
    /\ UNCHANGED <<tree, grd, ev, wid>>

\* container.canvas = a canvas, which runs recalc
MouseLayout ==
    /\ lay' = Recalc([lay EXCEPT !.canvas = [set |-> TRUE, x |-> 0, y |-> 0,
                                             w |-> MouseCanvas, h |-> MouseCanvas]])
    /\ lay' # lay
    /\ UNCHANGED <<tree, grd, ev, wid>>

\* child.zindex = z on the i-th child
MouseZindex(i, z) ==
    /\ i \in 1..Len(lay.children)
    /\ lay.children[i].zindex # z
    /\ lay' = [lay EXCEPT !.children[i].zindex = z]
    /\ UNCHANGED <<tree, grd, ev, wid>>

\* A mouse event at (x, y) fired on the container.
DoMouse(x, y) ==
    /\ ev' = OnMouse(lay, [x |-> x, y |-> y])
    /\ UNCHANGED <<tree, lay, grd, wid>>

InitMouse ==
    /\ tree = NewTree
    /\ InitGrd
    /\ InitWid
    /\ ev = NoMouse
    /\ \E kind \in {"ContainerView", "Vertical"} : lay = NewContainer(kind, HOR_MID, <<>>)

NextMouse ==
    \/ \E z \in 0..MaxZindex : MouseAddChild(z)
    \/ MouseLayout
    \/ \E i \in 1..MaxMouseChildren, z \in 0..MaxZindex : MouseZindex(i, z)
    \/ \E x \in 0..MouseCanvas, y \in 0..MouseCanvas : DoMouse(x, y)

SpecMouse == InitMouse /\ [][NextMouse]_vars

\* The largest zindex among the children of container c.
TopZindex(c) == MaxOf([i \in 1..Len(c.children) |-> c.children[i].zindex])

\* C15: every step that routes a mouse event fires it only on children whose
\* zindex is the largest among the children and whose canvas contains the
\* point shifted into it.
C15_MouseOnlyTopZindex ==
    [][ev' # ev
       => \A n \in 1..Len(ev'.delivered) :
            LET ch == lay.children[ev'.delivered[n]]
            IN  /\ ch.zindex = TopZindex(lay)
                /\ ch.canvas.set
                /\ Contains(ch.canvas, Shifted([x |-> ev'.x, y |-> ev'.y], ch.canvas))]_vars

(***************************************************************************)
(* One ValueWidget on its own (no parent): mouse presses, focus and value. *)
(* clicks, values and updates are what the last call fired and signalled.  *)
(***************************************************************************)
\* Largest value assigned to the widget, next to None.
MaxValue == 3

Values == {None} \cup 1..MaxValue

Buttons == {"LEFT", "RIGHT"}

\* ValueWidget.__init__(value = None) on top of View.__init__
NewWidget ==
    [focusable |-> TRUE, focused |-> FALSE, value |-> None,
     clicks |-> 0, values |-> <<>>, updates |-> 0, raised |-> "no", op |-> "new"]

\* The start of a call on the widget: nothing fired, signalled or raised yet.
WidBegin(w, op) ==
    [w EXCEPT !.clicks = 0, !.values = <<>>, !.updates = 0, !.raised = "no", !.op = op]

\* View.update(): one more wake-up of the render cycle.
WidUpdate(w) == [w EXCEPT !.updates = @ + 1]

\* Widget.focused = f: the setter of View with Widget.onfocus / onunfocus.
WidSetFocused(w, f) ==
    IF w.focused = f THEN w
    ELSE IF f /\ ~w.focusable THEN [w EXCEPT !.raised = "NotImplementedError"]
    ELSE WidUpdate([w EXCEPT !.focused = f])

\* A press that fires a click whether or not the widget is focused.
WidOnMouseClicks(w) ==
    IF w.focusable THEN [w EXCEPT !.clicks = @ + 1] ELSE w

\* Widget._onmouse, run for a press of the primary button.
WidOnMouse(w) ==
    IF w.focusable
    THEN IF w.focusable /\ ~w.focused THEN WidSetFocused(w, TRUE)
         ELSE [w EXCEPT !.clicks = @ + 1]
    ELSE w

\* The setter of value without the test for an unchanged value.
WidSetValueAlways(w, v) ==
    WidUpdate([w EXCEPT !.values = Append(@, <<w.value, v>>), !.value = v])

\* ValueWidget.value = v
WidSetValue(w, v) ==
    IF w.value = v THEN w
    ELSE WidUpdate([w EXCEPT !.values = Append(@, <<w.value, v>>), !.value = v])

\* A mouse event fired on the widget; the handler is registered for presses
\* of the primary button only.
WidMouse(button, pressed) ==
    /\ wid' = IF pressed /\ button = "LEFT"
              THEN WidOnMouse(WidBegin(wid, "press"))
              ELSE WidBegin(wid, "mouse")
    /\ UNCHANGED <<tree, lay, grd, ev>>

\* widget.focused = f
WidAssignFocused(f) ==
    /\ wid' = WidSetFocused(WidBegin(wid, "focused"), f)
    /\ UNCHANGED <<tree, lay, grd, ev>>

\* widget.focusable = b
WidAssignFocusable(b) ==
    /\ wid.focusable # b
    /\ wid' = [WidBegin(wid, "focusable") EXCEPT !.focusable = b]
    /\ UNCHANGED <<tree, lay, grd, ev>>

\* widget.value = v
WidAssignValue(v) ==
    /\ wid' = WidSetValue(WidBegin(wid, "value"), v)
    /\ UNCHANGED <<tree, lay, grd, ev>>

InitWidget ==
    /\ tree = NewTree
    /\ InitLay
    /\ InitGrd
    /\ InitEv
    /\ wid = NewWidget

NextWidget ==
    \/ \E button \in Buttons, pressed \in BOOLEAN : WidMouse(button, pressed)
    \/ \E f \in BOOLEAN : WidAssignFocused(f)
    \/ \E b \in BOOLEAN : WidAssignFocusable(b)
    \/ \E v \in Values : WidAssignValue(v)

SpecWidget == InitWidget /\ [][NextWidget]_vars

\* C16: a press of the primary button on an unfocused, focusable widget
\* leaves it focused and fires no click; a press on a focused, focusable
\* widget fires exactly one click and leaves it focused.
C16_PressFocusesThenClicks ==
    [][(wid' # wid /\ wid'.op = "press" /\ wid.focusable)
       => /\ wid'.focused
          /\ wid'.clicks = (IF wid.focused THEN 1 ELSE 0)
          /\ wid'.raised = "no"]_vars

\* The widget, focused by a press, has been pressed again and has clicked.
C16_Witness ==
    /\ wid.op = "press"
    /\ wid.focused
    /\ wid.clicks = 1

\* C17: assigning the widget's current value fires no value event, signals no
\* update and leaves the value; assigning another value fires exactly one
\* value event carrying the old and the new value, signals an update and
\* sets the value.
C17_ValueChangeIdempotent ==
    [][\A v \in Values :
         WidAssignValue(v)
         => IF v = wid.value
            THEN wid'.values = <<>> /\ wid'.updates = 0 /\ wid'.value = wid.value
            ELSE /\ wid'.values = << <<wid.value, v>> >>
                 /\ wid'.updates = 1
                 /\ wid'.value = v]_vars

\* The widget's value has been assigned twice: changed, then assigned again
\* unchanged.
C17_Witness ==
    /\ wid.op = "value"
    /\ wid.value # None
    /\ wid.values = <<>>
    /\ wid.updates = 0

(***************************************************************************)
(* Radios and one Radio.Group.  members is the group (a list) in order;    *)
(* gevents and vevents are the group-level and the member-level value      *)
(* events the last call fired, each an <<old, new>> pair (vevents with the  *)
(* member in front).                                                       *)
(***************************************************************************)
NRadios == 3

Radios == 1..NRadios

\* No Radio built yet and Radio.Group() empty.
NewRadios ==
    [built |-> {}, value |-> [r \in Radios |-> FALSE],
     ingroup |-> [r \in Radios |-> FALSE], members |-> <<>>,
     gevents |-> <<>>, vevents |-> <<>>, updates |-> 0, op |-> "new", arg |-> None]

\* The start of a call: nothing fired or signalled yet.
RadioBegin(s, op, r) ==
    [s EXCEPT !.gevents = <<>>, !.vevents = <<>>, !.updates = 0, !.op = op, !.arg = r]

\* Radio.Group.selected: the first member whose value is true.
RECURSIVE SelectedFrom(_, _)
SelectedFrom(s, i) ==
    IF i > Len(s.members) THEN None
    ELSE IF s.value[s.members[i]] THEN s.members[i]
    ELSE SelectedFrom(s, i + 1)

Selected(s) == SelectedFrom(s, 1)

RECURSIVE Select(_, _)
RECURSIVE SelectFrom(_, _, _)
RECURSIVE OnChange(_, _)
RECURSIVE RadioSetValue(_, _, _)

\* Radio._onchange, the handler of value events whose new value is true.
OnChange(s, r) == IF s.ingroup[r] THEN Select(s, r) ELSE s

\* ValueWidget.value = v on radio r, with the handlers of Radio.
RadioSetValue(s, r, v) ==
    IF s.value[r] = v THEN s
    ELSE LET s1 == [s EXCEPT !.value[r] = v,
                             !.vevents = Append(@, <<r, s.value[r], v>>)]
             s2 == IF v THEN OnChange(s1, r) ELSE s1
         IN  [s2 EXCEPT !.updates = @ + 1]

\* The loop of select without the branch that clears the other members.
RECURSIVE SelectFromKeepsOthers(_, _, _)
SelectFromKeepsOthers(s, radio, i) ==
    IF i > Len(s.members) THEN s
    ELSE IF s.members[i] = radio /\ ~s.value[radio]
    THEN SelectFromKeepsOthers(RadioSetValue(s, radio, TRUE), radio, i + 1)
    ELSE SelectFromKeepsOthers(s, radio, i + 1)

\* Radio.Group.select, the loop over the members from index i on.
SelectFrom(s, radio, i) ==
    IF i > Len(s.members) THEN s
    ELSE IF s.members[i] # radio
    THEN SelectFrom(RadioSetValue(s, s.members[i], FALSE), radio, i + 1)
    ELSE IF ~s.value[s.members[i]]
    THEN SelectFrom(RadioSetValue(s, s.members[i], TRUE), radio, i + 1)
    ELSE SelectFrom(s, radio, i + 1)

\* Radio.Group.select(radio)
Select(s, radio) ==
    LET old == Selected(s)
        s1 == SelectFrom(s, radio, 1)
    IN  IF Selected(s1) = old THEN s1
        ELSE [s1 EXCEPT !.gevents = Append(@, <<old, Selected(s1)>>)]

\* Radio.group = the group (g true) or None (g false)
SetGroup(s, r, g) ==
    LET s1 == IF s.ingroup[r] THEN [s EXCEPT !.members = ListRemove(@, r)] ELSE s
        s2 == [s1 EXCEPT !.ingroup[r] = g]
    IN  IF g THEN [s2 EXCEPT !.members = Append(@, r)] ELSE s2

\* r = Radio(checked = checked, group = the group or None)
RadioNew(r, checked, g) ==
    /\ r \notin wid.built
    /\ wid' = SetGroup([RadioBegin(wid, "new", r) EXCEPT !.built = @ \cup {r},
                                                       !.value[r] = checked],
                       r, g)
    /\ UNCHANGED <<tree, lay, grd, ev>>

\* r.group = the group or None
RadioAssignGroup(r, g) ==
    /\ r \in wid.built
    /\ wid' = SetGroup(RadioBegin(wid, "group", r), r, g)
    /\ UNCHANGED <<tree, lay, grd, ev>>

\* r.value = v; with v true also what a click, Space or Enter on r does
\* (Radio._set)
RadioAssignValue(r, v) ==
    /\ r \in wid.built
    /\ wid' = RadioSetValue(RadioBegin(wid, IF v THEN "set" ELSE "unset", r), r, v)
    /\ UNCHANGED <<tree, lay, grd, ev>>

\* group.select(r)
RadioSelect(r) ==
    /\ r \in wid.built
    /\ wid' = Select(RadioBegin(wid, "select", r), r)
    /\ UNCHANGED <<tree, lay, grd, ev>>

InitRadio ==
    /\ tree = NewTree
    /\ InitLay
    /\ InitGrd
    /\ InitEv
    /\ wid = NewRadios

NextRadio ==
    \/ \E r \in Radios, checked \in BOOLEAN, g \in BOOLEAN : RadioNew(r, checked, g)
    \/ \E r \in Radios, g \in BOOLEAN : RadioAssignGroup(r, g)
    \/ \E r \in Radios, v \in BOOLEAN : RadioAssignValue(r, v)
    \/ \E r \in Radios : RadioSelect(r)

SpecRadio == InitRadio /\ [][NextRadio]_vars

\* The members of the group whose value is true.
TrueMembers(s) == {r \in Range(s.members) : s.value[r]}

\* C18: right after group.select(r) for a member r of the group, whatever
\* was selected before, r is the one member whose value is true.
C18_SelectLeavesOnlyTarget ==
    (wid.op = "select" /\ wid.ingroup[wid.arg]) => TrueMembers(wid) = {wid.arg}

\* select(r) has run on a group of three where another member, placed after
\* r, was the one selected.
C18_Witness ==
    /\ wid.op = "select"
    /\ Len(wid.members) = 3
    /\ wid.ingroup[wid.arg]
    /\ wid.members[3] # wid.arg
    /\ \E e \in Range(wid.vevents) : e = <<wid.members[3], TRUE, FALSE>>

\* C19: a step that runs group.select(r) or sets a member r's value to true,
\* in a group with at most one member selected, fires exactly one group-level
\* value event <<old, new>> when the selected member changes from old to new
\* and none when it does not change.
C19_OneGroupEventPerChange ==
    [][(/\ wid' # wid
        /\ wid'.op \in {"select", "set"}
        /\ wid.ingroup[wid'.arg]
        /\ Cardinality(TrueMembers(wid)) <= 1)
       => wid'.gevents = IF Selected(wid') = Selected(wid) THEN <<>>
                         ELSE << <<Selected(wid), Selected(wid')>> >>]_vars

\* C20: in every reachable state at most one member of the group has value
\* true.
C20_AtMostOneSelected == Cardinality(TrueMembers(wid)) <= 1

\* A step of group.select(r) alone, in a group with at most one member
\* selected, fires one group-level event <<old, new>> when the selection
\* changes and none when it does not.
SelectNotifiesOnce ==
    [][(/\ wid' # wid
        /\ wid'.op = "select"
        /\ wid.ingroup[wid'.arg]
        /\ Cardinality(TrueMembers(wid)) <= 1)
       => wid'.gevents = IF Selected(wid') = Selected(wid) THEN <<>>
                         ELSE << <<Selected(wid), Selected(wid')>> >>]_vars

(***************************************************************************)
(* TextInput: value (a string, here a sequence of characters), cursor and  *)
(* offset, with the key handlers.                                          *)
(***************************************************************************)
MaxText == 6

MaxLength == 5

Chars == {"a", "b"}

\* Python's s[a:b] for 0 <= a, 0 <= b
Sub(s, a, b) == SubSeq(s, Min(a, Len(s)) + 1, Min(b, Len(s)))

\* The offset setter: a negative offset is stored as 0.
TextSetOffset(t, o) == [t EXCEPT !.offset = IF o >= 0 THEN o ELSE 0]

\* TextInput(default = default, length = length); short records that the
\* default was shorter than length.
NewTextInput(default, length) ==
    [short |-> Len(default) < length, length |-> length, value |-> default,
     offset |-> 0, cursor |-> Len(default), op |-> "new"]

\* TextInput._onbackspace
TextOnBackspace(t) ==
    IF t.cursor > 0
    THEN LET t1 == [t EXCEPT !.cursor = @ - 1]
             t2 == TextSetOffset(t1, t1.offset - 1)
         IN  [t2 EXCEPT !.value = Sub(@, 0, t2.cursor) \o Sub(@, t2.cursor + 1, Len(@))]
    ELSE t

\* TextInput._ondelete
TextOnDelete(t) ==
    IF Len(t.value) # 0
    THEN [t EXCEPT !.value = Sub(@, 0, t.cursor) \o Sub(@, t.cursor + 1, Len(@))]
    ELSE t

\* TextInput._onleft
TextOnLeft(t) ==
    IF t.cursor > 0
    THEN LET t1 == [t EXCEPT !.cursor = @ - 1]
         IN  IF t1.cursor < t1.offset THEN TextSetOffset(t1, t1.offset - 1) ELSE t1
    ELSE t

\* TextInput._onright
TextOnRight(t) ==
    IF t.cursor < Len(t.value)
    THEN LET t1 == [t EXCEPT !.cursor = @ + 1]
         IN  IF t1.cursor > t1.offset + t1.length - 1
             THEN TextSetOffset(t1, t1.offset + 1) ELSE t1
    ELSE t

\* TextInput._onhome
TextOnHome(t) == TextSetOffset([t EXCEPT !.cursor = 0], 0)

\* TextInput._onend
TextOnEnd(t) ==
    TextSetOffset([t EXCEPT !.cursor = Len(t.value)], Len(t.value) - t.length + 1)

\* The printable-key handler without the scroll of the window.
TextOnKeyNoScroll(t, val) ==
    LET t1 == [t EXCEPT !.cursor = @ + 1]
    IN  [t1 EXCEPT !.value = Sub(@, 0, t1.cursor - 1) \o <<val>>
                                 \o Sub(@, t1.cursor - 1, Len(@))]

\* TextInput._onkey, the handler of printable characters
TextOnKey(t, val) ==
    LET t1 == [t EXCEPT !.cursor = @ + 1]
        t2 == IF t1.cursor > t1.offset + t1.length - 1
              THEN TextSetOffset(t1, t1.offset + 1) ELSE t1
    IN  [t2 EXCEPT !.value = Sub(@, 0, t2.cursor - 1) \o <<val>>
                                 \o Sub(@, t2.cursor - 1, Len(@))]

\* One key event on the TextInput.
TextKey(k) ==
    /\ wid' = [(CASE k = "backspace" -> TextOnBackspace(wid)
                  [] k = "delete" -> TextOnDelete(wid)
                  [] k = "left" -> TextOnLeft(wid)
                  [] k = "right" -> TextOnRight(wid)
                  [] k = "home" -> TextOnHome(wid)
                  [] k = "end" -> TextOnEnd(wid)) EXCEPT !.op = k]
    /\ UNCHANGED <<tree, lay, grd, ev>>

\* One printable character typed into the TextInput.
TextType(val) ==
    /\ Len(wid.value) < MaxText
    /\ wid' = [TextOnKey(wid, val) EXCEPT !.op = "key"]
    /\ UNCHANGED <<tree, lay, grd, ev>>

TextKeys == {"backspace", "delete", "left", "right", "home", "end"}

RECURSIVE Texts(_)
Texts(n) ==
    IF n = 0 THEN {<<>>}
    ELSE Texts(n - 1) \cup {Append(s, c) : s \in Texts(n - 1), c \in Chars}

InitText ==
    /\ tree = NewTree
    /\ InitLay
    /\ InitGrd
    /\ InitEv
    /\ \E default \in Texts(MaxLength), length \in 1..MaxLength :
          wid = NewTextInput(default, length)

NextText ==
    \/ \E k \in TextKeys : TextKey(k)
    \/ \E val \in Chars : TextType(val)

SpecText == InitText /\ [][NextText]_vars

\* The cursor is in the visible window of the TextInput.
CursorVisible(t) == t.offset <= t.cursor /\ t.cursor <= t.offset + t.length - 1

\* C21: a TextInput of length 5 with cursor 5 and offset 0 that receives one
\* printable character ends with cursor 6 and offset 1, and the cursor is
\* then in the visible window [offset, offset + length - 1].
C21_ScenarioD ==
    [][(wid.length = 5 /\ wid.cursor = 5 /\ wid.offset = 0 /\ wid'.op = "key" /\ wid' # wid)
       => wid'.cursor = 6 /\ wid'.offset = 1 /\ CursorVisible(wid')]_vars

\* The arithmetic of scenario D alone: cursor 6 and offset 1.
ScenarioDMoves ==
    [][(wid.length = 5 /\ wid.cursor = 5 /\ wid.offset = 0 /\ wid'.op = "key" /\ wid' # wid)
       => wid'.cursor = 6 /\ wid'.offset = 1]_vars

\* C26: a TextInput created with a default value shorter than length keeps,
\* after any sequence of key events, 0 <= cursor <= len(value), offset >= 0
\* and the cursor in the visible window.
C26_CursorWellFormed ==
    wid.short
        => /\ 0 <= wid.cursor /\ wid.cursor <= Len(wid.value)
           /\ wid.offset >= 0
           /\ CursorVisible(wid)

\* Typing has scrolled the window of a TextInput whose default was shorter
\* than its length, and a backspace followed.
C26_Witness ==
    /\ wid.short
    /\ wid.op = "backspace"
    /\ wid.offset > 0
    /\ wid.cursor < Len(wid.value)

(***************************************************************************)
(* Decade with decimals = 0: value, cursor, min and max, with the handlers *)
(* of '+', '-', left and right.                                            *)
(***************************************************************************)
MaxDigits == 2

MaxLimit == 25

\* The limits a Decade is built with, next to the default ones.
Limits == {-MaxLimit, -3, 0, 4, MaxLimit}

\* The values a Decade is built with.
StartValues == {-MaxLimit - 1, -3, 0, 2, 4, MaxLimit + 1}

\* Decade(digits, 0, value, cursor, max, min); usemax and usemin false stand
\* for max = None and min = None.  valuein and cursorin record that the value
\* started in [min, max] and the cursor in [0, digits - 1].
NewDecade(digits, value, cursor, usemax, mx, usemin, mn) ==
    LET max == IF usemax THEN mx ELSE 10 ^ digits - 1
        min == IF usemin THEN mn ELSE -(10 ^ digits) + 1
    IN  [digits |-> digits, value |-> value, cursor |-> cursor,
         max |-> max, min |-> min,
         valuein |-> (min <= value /\ value <= max),
         cursorin |-> (0 <= cursor /\ cursor <= digits - 1),
         op |-> "new"]

\* Decade._onright
DecadeOnRight(d) == IF d.cursor > 0 THEN [d EXCEPT !.cursor = @ - 1] ELSE d

\* Decade._onleft
DecadeOnLeft(d) == IF d.cursor < d.digits - 1 THEN [d EXCEPT !.cursor = @ + 1] ELSE d

\* Decade._delta with decimals = 0
Delta(d) == 10 ^ d.cursor

\* '+' without the clamp at max.
DecadeAddUnclamped(d) == [d EXCEPT !.value = @ + Delta(d)]

\* Decade._add
DecadeAdd(d) ==
    IF d.value + Delta(d) <= d.max
    THEN [d EXCEPT !.value = @ + Delta(d)]
    ELSE [d EXCEPT !.value = d.max]

\* Decade._sub
DecadeSub(d) ==
    IF d.value - Delta(d) >= d.min
    THEN [d EXCEPT !.value = @ - Delta(d)]
    ELSE [d EXCEPT !.value = d.min]

DecadeKeys == {"+", "-", "left", "right"}

\* One key event on the Decade.
DecadeKey(k) ==
    /\ wid' = [(CASE k = "+" -> DecadeAdd(wid)
                  [] k = "-" -> DecadeSub(wid)
                  [] k = "left" -> DecadeOnLeft(wid)
                  [] k = "right" -> DecadeOnRight(wid)) EXCEPT !.op = k]
    /\ UNCHANGED <<tree, lay, grd, ev>>

InitDecade ==
    /\ tree = NewTree
    /\ InitLay
    /\ InitGrd
    /\ InitEv
    /\ \E digits \in 1..MaxDigits, value \in StartValues,
          usemax \in BOOLEAN, usemin \in BOOLEAN, mx \in Limits, mn \in Limits :
       \E cursor \in 0..digits :
          wid = NewDecade(digits, value, cursor, usemax, mx, usemin, mn)

NextDecade == \E k \in DecadeKeys : DecadeKey(k)

SpecDecade == InitDecade /\ [][NextDecade]_vars

\* value in [min, max] and cursor in [0, digits - 1]
DecadeInRange(d) ==
    /\ d.min <= d.value /\ d.value <= d.max
    /\ 0 <= d.cursor /\ d.cursor <= d.digits - 1

\* '+' adds 10^cursor or stops at max, '-' subtracts 10^cursor or stops at
\* min.
DecadeSteps ==
    /\ (wid'.op = "+" /\ wid' # wid) =>
          wid'.value = IF wid.value + 10 ^ wid.cursor > wid.max THEN wid.max
                       ELSE wid.value + 10 ^ wid.cursor
    /\ (wid'.op = "-" /\ wid' # wid) =>
          wid'.value = IF wid.value - 10 ^ wid.cursor < wid.min THEN wid.min
                       ELSE wid.value - 10 ^ wid.cursor

\* C22: for a Decade with decimals = 0 whose value starts in [min, max],
\* after any sequence of '+', '-', left and right keys min <= value <= max
\* and 0 <= cursor <= digits - 1; '+' adds 10^cursor or stops at max and '-'
\* subtracts 10^cursor or stops at min.
C22_DecadeInRange ==
    /\ [](wid.valuein => DecadeInRange(wid))
    /\ [][wid.valuein => DecadeSteps]_vars

\* C22 as amended: the same for a Decade whose value starts in [min, max]
\* and whose cursor starts in [0, digits - 1].
C22_DecadeInRangeFromValidCursor ==
    /\ []((wid.valuein /\ wid.cursorin) => DecadeInRange(wid))
    /\ [][(wid.valuein /\ wid.cursorin) => DecadeSteps]_vars

\* A '+' at the tens digit has stopped at a max given to the constructor.
C22_Witness ==
    /\ wid.valuein /\ wid.cursorin
    /\ wid.op = "+"
    /\ wid.cursor = 1
    /\ wid.value = wid.max
    /\ wid.max = 4

(***************************************************************************)
(* Console: lines is the deque _lines (newest first), splitlines the       *)
(* wrapped view _splitlines (bottom line first), width the width of the    *)
(* canvas with hascanvas false while the canvas is None.  pushed lists     *)
(* every line ever pushed, newest first.                                   *)
(***************************************************************************)
MaxHistory == 2

MaxMinheight == 2

MaxWidth == 2

MaxPush == 3

\* The lines pushed: of length 0 to 3.
ConsoleLines == {<<>>, <<"a">>, <<"a", "b">>, <<"a", "b", "c">>}

\* Console(minheight, history)
NewConsole(minheight, history) ==
    [minheight |-> minheight, history |-> history, lines |-> <<>>,
     splitlines |-> <<>>, hascanvas |-> FALSE, width |-> 0, pushed |-> <<>>,
     raised |-> "no", op |-> "new"]

\* collections.deque(maxlen = n).appendleft(x)
AppendLeft(q, x, n) == SubSeq(<<x>> \o q, 1, Min(Len(q) + 1, n))

\* The inner loop of _update_splitlines: for x in range(x, 0, -width)
RECURSIVE Chunks(_, _, _)
Chunks(line, x, width) ==
    IF x <= 0 THEN <<>>
    ELSE <<Sub(line, x - width, x)>> \o Chunks(line, x - width, width)

\* One line wrapped, as _update_splitlines appends it.
SplitLine(line, width) ==
    LET rem == Len(line) % width
    IN  <<Sub(line, IF rem = 0 THEN 0 ELSE Len(line) - rem, Len(line))>>
            \o Chunks(line, Len(line) - rem, width)

RECURSIVE SplitAll(_, _)
SplitAll(lines, width) ==
    IF lines = <<>> THEN <<>>
    ELSE SplitLine(Head(lines), width) \o SplitAll(Tail(lines), width)

\* Console._update_splitlines
UpdateSplitlines(c) ==
    IF c.lines = <<>> THEN [c EXCEPT !.splitlines = <<>>]
    ELSE IF ~c.hascanvas THEN [c EXCEPT !.splitlines = <<>>, !.raised = "AttributeError"]
    ELSE IF c.width = 0 THEN [c EXCEPT !.splitlines = <<>>, !.raised = "ZeroDivisionError"]
    ELSE [c EXCEPT !.splitlines = SplitAll(c.lines, c.width)]

\* console.push(line)
ConsolePush(line) ==
    /\ Len(wid.pushed) < MaxPush
    /\ wid' = UpdateSplitlines([wid EXCEPT !.lines = AppendLeft(@, line, wid.history),
                                          !.pushed = <<line>> \o @,
                                          !.raised = "no", !.op = "push"])
    /\ UNCHANGED <<tree, lay, grd, ev>>

\* console.canvas = a canvas of width w
ConsoleSetCanvas(w) ==
    /\ wid' = UpdateSplitlines([wid EXCEPT !.hascanvas = TRUE, !.width = w,
                                          !.raised = "no", !.op = "canvas"])
    /\ UNCHANGED <<tree, lay, grd, ev>>

InitConsole ==
    /\ tree = NewTree
    /\ InitLay
    /\ InitGrd
    /\ InitEv
    /\ \E minheight \in 1..MaxMinheight, history \in 1..MaxHistory :
          wid = NewConsole(minheight, history)

NextConsole ==
    \/ \E line \in ConsoleLines : ConsolePush(line)
    \/ \E w \in 0..MaxWidth : ConsoleSetCanvas(w)

SpecConsole == InitConsole /\ [][NextConsole]_vars

\* The Console retains at most history lines, the most recently pushed.
ConsoleHistoryBounded ==
    wid.lines = SubSeq(wid.pushed, 1, Min(Len(wid.pushed), wid.history))

\* C23: after any sequence of push calls and canvas changes the Console
\* retains at most history lines, the most recently pushed, and its wrapped
\* view holds at most minheight lines with the newest line at the bottom.
C23_ConsoleBounded ==
    /\ ConsoleHistoryBounded
    /\ Len(wid.splitlines) <= wid.minheight
    /\ (wid.raised = "no" /\ wid.lines # <<>>) =>
          /\ wid.splitlines # <<>>
          /\ wid.splitlines[1] = SplitLine(wid.lines[1], wid.width)[1]

(***************************************************************************)
(* One container with children whose display is true or false: layout and  *)
(* paint.  painted lists the children the last render() painted.           *)
(***************************************************************************)
MaxHidden == 2

DisplayKinds == {"ContainerView", "Vertical", "Horizontal"}

\* A Spacer whose display attribute was assigned d.
NewChildDisplay(e, st, d) == [NewChild(e, st) EXCEPT !.display = d]

DisplayChoices ==
    {NewChildDisplay(e, st, d) : e \in 0..MaxSize, st \in BOOLEAN, d \in BOOLEAN}

\* ContainerView.render: the indices of the children painted, in order.
RECURSIVE Painted(_, _)
Painted(cs, i) ==
    IF i > Len(cs) THEN <<>>
    ELSE IF cs[i].display THEN <<i>> \o Painted(cs, i + 1)
    ELSE Painted(cs, i + 1)

\* The container is given a canvas of e by e cells.
DisplayAssignCanvas(e) ==
    /\ ~lay.canvas.set
    /\ lay' = Recalc([lay EXCEPT !.canvas = [set |-> TRUE, x |-> 0, y |-> 0, w |-> e, h |-> e]])
    /\ UNCHANGED <<tree, grd, ev, wid>>

\* container.render()
DisplayRender ==
    /\ lay.canvas.set
    /\ lay' = [lay EXCEPT !.shouldclear = FALSE, !.painted = Painted(lay.children, 1)]
    /\ UNCHANGED <<tree, grd, ev, wid>>

InitDisplay ==
    /\ tree = NewTree
    /\ InitGrd
    /\ InitEv
    /\ InitWid
    /\ \E kind \in DisplayKinds, n \in 0..MaxHidden :
         \E f \in [1..n -> DisplayChoices] :
            lay = NewContainer(kind, HOR_MID, ChildList(f, n)) @@ [painted |-> <<>>]

NextDisplay ==
    \/ \E e \in 0..MaxCanvas : DisplayAssignCanvas(e)
    \/ DisplayRender

SpecDisplay == InitDisplay /\ [][NextDisplay]_vars

\* The container c without its child i.
WithoutChild(c, i) ==
    [c EXCEPT !.children = SubSeq(@, 1, i - 1) \o SubSeq(@, i + 1, Len(@))]

\* Hidden children are never painted.
HiddenNotPainted ==
    \A j \in 1..Len(lay.painted) : lay.children[lay.painted[j]].display

\* C24: a child with display = false adds nothing to its container's size,
\* receives no canvas in the layout and is not rendered.  (That focus_next
\* and focus_prev pass over it is C14; focus defaulting is C4.)
C24_HiddenChildTakesNoPart ==
    \A i \in 1..Len(lay.children) :
        ~lay.children[i].display
            => /\ LaySize(lay) = LaySize(WithoutChild(lay, i))
               /\ ~lay.children[i].canvas.set
               /\ \A j \in 1..Len(lay.painted) : lay.painted[j] # i

(***************************************************************************)
(* The layout pre-pass on nested containers.  View 1 is the root, view     *)
(* i + 1 the only child of view i (for a Grid: the child of its only cell).*)
(* precalced marks the views whose precalc the last pre-pass invoked,      *)
(* sized the Grids that have computed _cws, _rhs and _size, hascanvas the  *)
(* views that were assigned a canvas.                                      *)
(***************************************************************************)
MaxDepth == 3

NestContainers == {"ContainerView", "Grid"}

NestKinds == {"View", "ContainerView", "Grid"}

\* The views built and attached by add_child / Grid.set: all dirty.
NewNest(kind) ==
    [depth |-> Len(kind), kind |-> kind,
     dirty |-> [i \in 1..Len(kind) |-> TRUE],
     precalced |-> [i \in 1..Len(kind) |-> FALSE],
     sized |-> [i \in 1..Len(kind) |-> FALSE],
     hascanvas |-> [i \in 1..Len(kind) |-> FALSE],
     raised |-> "no", wasdirty |-> FALSE, op |-> "new"]

\* View.dirty / ContainerView.dirty (getter) of view i
RECURSIVE NestDirty(_, _)
NestDirty(s, i) ==
    IF s.kind[i] = "View" THEN s.dirty[i]
    ELSE s.dirty[i] \/ (i < s.depth /\ NestDirty(s, i + 1))

\* View.dirty / ContainerView.dirty (setter) of view i
RECURSIVE NestSetDirty(_, _, _)
NestSetDirty(s, i, d) ==
    LET s1 == [s EXCEPT !.dirty[i] = d]
    IN  IF s.kind[i] = "View" \/ i = s.depth THEN s1 ELSE NestSetDirty(s1, i + 1, d)

\* View.precalc / ContainerView.precalc / Grid.precalc of view i
RECURSIVE NestPrecalc(_, _)
NestPrecalc(s, i) ==
    LET s1 == [s EXCEPT !.precalced[i] = TRUE]
    IN  CASE s.kind[i] = "View" -> s1
          [] s.kind[i] = "Grid" -> [s1 EXCEPT !.sized[i] = TRUE]
          [] OTHER -> IF NestDirty(s, i) /\ i < s.depth THEN NestPrecalc(s1, i + 1) ELSE s1

\* View.canvas (setter) of view i, with View.recalc / ContainerView.recalc /
\* Grid.recalc
RECURSIVE NestSetCanvas(_, _)
NestSetCanvas(s, i) ==
    LET s1 == [s EXCEPT !.hascanvas[i] = TRUE]
    IN  CASE s.kind[i] = "View" -> s1
          [] s.kind[i] = "Grid" ->
                IF ~s.sized[i] THEN [s1 EXCEPT !.raised = "AttributeError"]
                ELSE IF i < s.depth THEN NestSetCanvas(s1, i + 1) ELSE s1
          [] OTHER ->
                IF NestDirty(s1, i)
                THEN LET s2 == IF i < s.depth THEN NestSetCanvas(s1, i + 1) ELSE s1
                     IN  IF s2.raised # "no" THEN s2 ELSE NestSetDirty(s2, i, FALSE)
                ELSE s1

\* root.precalc(), the first step of a render cycle
NestRootPrecalc ==
    /\ tree' = NestPrecalc([tree EXCEPT !.precalced = [i \in 1..tree.depth |-> FALSE],
                                        !.raised = "no", !.op = "precalc",
                                        !.wasdirty = NestDirty(tree, 1)], 1)
    /\ UNCHANGED <<lay, grd, ev, wid>>

\* root.canvas = the screen, the step of the render cycle after precalc
NestRootCanvas ==
    /\ tree.op = "precalc"
    /\ tree' = NestSetCanvas([tree EXCEPT !.op = "canvas"], 1)
    /\ UNCHANGED <<lay, grd, ev, wid>>

\* v.dirty = True on view i
NestAssignDirty(i) ==
    /\ i <= tree.depth
    /\ tree.op # "precalc"
    /\ tree' = NestSetDirty([tree EXCEPT !.raised = "no", !.op = "dirty"], i, TRUE)
    /\ UNCHANGED <<lay, grd, ev, wid>>

InitNest ==
    /\ InitLay
    /\ InitGrd
    /\ InitEv
    /\ InitWid
    /\ \E depth \in 2..MaxDepth :
       \E kind \in [1..depth -> NestKinds] :
          /\ \A i \in 1..(depth - 1) : kind[i] \in NestContainers
          /\ tree = NewNest(kind)

NextNest ==
    \/ NestRootPrecalc
    \/ NestRootCanvas
    \/ \E i \in 1..MaxDepth : NestAssignDirty(i)

SpecNest == InitNest /\ [][NextNest]_vars

\* C25: while the tree is dirty, a precalc started at the root invokes precalc
\* on every descendant, through ContainerViews and Grids alike, so that in the
\* canvas assignment that follows every nested Grid has its column widths, row
\* heights and size and no recalc fails.
C25_PrecalcReachesAll ==
    tree.wasdirty
        => /\ tree.op = "precalc" => \A i \in 1..tree.depth : tree.precalced[i]
           /\ tree.op = "canvas" => tree.raised = "no"

\* Below a plain ContainerView the pre-pass does reach the child while the
\* tree is dirty.
ContainerViewForwards ==
    (tree.op = "precalc" /\ tree.wasdirty /\ tree.kind[1] = "ContainerView")
        => tree.precalced[2]

(***************************************************************************)
(* The focus chain: the tree of Spec, built by attaching unfocused views   *)
(* only.                                                                   *)
(***************************************************************************)
\* k.add_child(c) with c unfocused
ChainAddChild(k, c) == ~tree.focused[c] /\ DoAddChild(k, c)

\* grid.set(x, 0, child) with child unfocused
ChainGridSet(x, child) == ~tree.focused[child] /\ DoGridSet(x, child)

NextChain ==
    \/ \E k \in Containers, c \in Views : ChainAddChild(k, c)
    \/ \E x \in Cells, c \in Views : ChainGridSet(x, c)
    \/ \E v \in Views, f \in BOOLEAN : AssignFocused(v, f)
    \/ \E k \in Containers, step \in {1, -1} : DoFocusNext(k, step)
    \/ \E k \in Containers, c \in Views : DoRemoveChild(k, c)
    \/ \E v \in Views, b \in BOOLEAN : AssignFocusable(v, b)
    \/ \E v \in Views, b \in BOOLEAN : AssignDisplay(v, b)

SpecChain == Init /\ [][NextChain]_vars

\* C27: in a tree built by attaching unfocused views, after any sequence of
\* focused assignments, focus_next/focus_prev and remove_child, every focused
\* view that has a parent has a focused parent.
C27_FocusChainClosed ==
    \A v \in Views :
        (tree.focused[v] /\ tree.parent[v] # None) => tree.focused[tree.parent[v]]

\* A leaf in the grid is focused below the focused grid and the focused root,
\* after a focused sibling of the grid was removed from the root.
C27_Witness ==
    /\ tree.parent[TheGrid] = Root
    /\ \E v \in Leaves : /\ tree.parent[v] = TheGrid
                         /\ tree.focused[v]
    /\ tree.focused[TheGrid]
    /\ tree.focused[Root]
    /\ \E v \in Leaves : tree.parent[v] = None /\ v \notin Range(tree.children[Root])
                         /\ tree.ret = "None" /\ tree.hooked
    /\ Len(tree.children[Root]) = 1

(***************************************************************************)
(* A key bubbled from the focused leaf.  The tree is that of Spec with a   *)
(* third leaf, and add_child is open to the grid as well, so that the grid *)
(* and the root can both hold siblings.                                    *)
(***************************************************************************)
ThirdLeaf == 5

KeyViews == Views \cup {ThirdLeaf}

\* View.__init__ / ContainerView.__init__ / Grid.__init__ for the five views
NewKeyTree ==
    [parent    |-> [v \in KeyViews |-> None],
     children  |-> [k \in Containers |-> <<>>],
     focused   |-> [v \in KeyViews |-> FALSE],
     focusable |-> [v \in KeyViews |-> TRUE],
     display   |-> [v \in KeyViews |-> TRUE],
     zindex    |-> [v \in KeyViews |-> 0],
     dirty     |-> [v \in KeyViews |-> TRUE],
     grid      |-> [x \in Cells |-> None],
     raised    |-> "no",
     hooked    |-> FALSE,
     ret       |-> "None"]

\* bubble that goes on to the parent whatever fire returns.
RECURSIVE BubbleKeyAll(_, _, _, _, _)
BubbleKeyAll(s, v, val, shift, taken) ==
    LET s1 == IF Kind(v) = "View" THEN s ELSE OnKey(s, v, val, shift, taken)
    IN  IF s1.parent[v] # None
        THEN BubbleKeyAll(s1, s1.parent[v], val, shift, taken)
        ELSE s1

\* v.bubble(key event): fire on v and, while not handled, on each next
\* ancestor.  A leaf handles the key when taken, a container by _onkey.
RECURSIVE BubbleKey(_, _, _, _, _)
BubbleKey(s, v, val, shift, taken) ==
    LET s1 == IF Kind(v) = "View" THEN s ELSE OnKey(s, v, val, shift, taken)
        handled == IF Kind(v) = "View" THEN taken ELSE s1.ret = "True"
    IN  IF ~handled /\ s1.parent[v] # None
        THEN BubbleKey(s1, s1.parent[v], val, shift, taken)
        ELSE s1

\* k.add_child(c), k the root or the grid, c an unfocused view in no tree
KeyAddChild(k, c) ==
    /\ c # Root
    /\ c # k
    /\ ~tree.focused[c]
    /\ tree.parent[c] = None
    /\ c \notin Range(tree.children[k])
    /\ tree' = AddChildOp(Begin(tree), k, c)
    /\ UNCHANGED <<lay, grd, ev, wid>>

\* A key event bubbled from the focused leaf v.
DoKeyBubble(v, val, shift, taken) ==
    /\ Kind(v) = "View"
    /\ tree.focused[v]
    /\ tree' = BubbleKey(Begin(tree), v, val, shift, taken)
    /\ UNCHANGED <<lay, grd, ev, wid>>

InitKeyBubble == tree = NewKeyTree /\ InitLay /\ InitGrd /\ InitEv /\ InitWid

NextKeyBubble ==
    \/ \E k \in Containers, c \in KeyViews : KeyAddChild(k, c)
    \/ \E v \in KeyViews, f \in BOOLEAN : AssignFocused(v, f)
    \/ \E v \in KeyViews, val \in Keys, shift \in BOOLEAN, taken \in BOOLEAN :
          DoKeyBubble(v, val, shift, taken)
    \/ \E v \in KeyViews, b \in BOOLEAN : AssignFocusable(v, b)

SpecKeyBubble == InitKeyBubble /\ [][NextKeyBubble]_vars

\* The containers above view v, parent first.
RECURSIVE AncestorsOf(_, _)
AncestorsOf(s, v) ==
    IF s.parent[v] = None THEN {} ELSE {s.parent[v]} \cup AncestorsOf(s, s.parent[v])

\* v is the focused leaf of an unbroken focus chain: every container above it
\* is focused and has one focused child.
FocusedLeaf(v) ==
    /\ Kind(v) = "View"
    /\ tree.focused[v]
    /\ tree.parent[v] # None
    /\ \A k \in AncestorsOf(tree, v) :
          tree.focused[k] /\ Cardinality(FocusedChildren(tree, k)) = 1

\* The containers above v in which the key has changed which child is focused.
MovedIn(v, t) ==
    {k \in AncestorsOf(tree, v) :
        /\ FocusedChildren(t, k) # FocusedChildren(tree, k)
        /\ FocusedChildren(t, k) # {}}

\* The tree after the key val bubbled from v.
AfterKey(v, val, shift, taken) == BubbleKey(Begin(tree), v, val, shift, taken)

\* The outcome C28 asks for, t being the tree after the key bubbled from v.
OneMove(v, t, step) ==
    /\ Cardinality(MovedIn(v, t)) <= 1
    /\ \A m \in MovedIn(v, t) :
          /\ Candidates(m, step) # {}
          /\ FocusedChildren(t, m) = {Nearest(m, step)}
    /\ \A k \in AncestorsOf(tree, v) \ MovedIn(v, t) :
          \/ FocusedChildren(t, k) = FocusedChildren(tree, k)
          \/ /\ FocusedChildren(t, k) = {}
             /\ \E m \in MovedIn(v, t) : m \in AncestorsOf(tree, k)
    /\ t.raised = "no"

\* C28: one Up, Down or Tab key bubbled from the focused leaf of an unbroken
\* focus chain changes which child is focused in at most one container of the
\* chain, there to the nearest candidate in the key's direction; every other
\* container of the chain keeps its focused child, or, below the container
\* that moved, ends with no focused child.  A key the leaf consumes changes
\* nothing.
C28_OneKeyOneMove ==
    \A v \in KeyViews, val \in Keys, shift \in BOOLEAN :
        FocusedLeaf(v)
        => /\ OneMove(v, AfterKey(v, val, shift, FALSE), KeyStep(val, shift))
           /\ AfterKey(v, val, shift, TRUE).focused = tree.focused

\* A key has moved the focus of the root from the grid, which holds two
\* leaves that can take focus and ends with no focused child, to the root's
\* second child.
C28_Witness ==
    /\ tree.ret = "True"
    /\ Len(tree.children[Root]) = 2
    /\ tree.children[Root][1] = TheGrid
    /\ FocusedChildren(tree, Root) = {2}
    /\ Len(tree.children[TheGrid]) = 2
    /\ FocusedChildren(tree, TheGrid) = {}
    /\ \A i \in 1..2 : Focusable(tree, tree.children[TheGrid][i])

\* A key has moved the focus inside the grid, below the root, whose focus
\* could have moved as well.
KeyMovedInGrid ==
    /\ tree.ret = "True"
    /\ tree.parent[TheGrid] = Root
    /\ Len(tree.children[TheGrid]) = 2
    /\ FocusedChildren(tree, TheGrid) = {2}
    /\ Len(tree.children[Root]) = 2
    /\ FocusedChildren(tree, Root) = {1}
    /\ Focusable(tree, tree.children[Root][2])

(***************************************************************************)
(* A plain ContainerView that is given one canvas after another.           *)
(***************************************************************************)
MaxResizeChildren == 2

\* container.canvas = a canvas of e by e cells, at any time
ResizeCanvas(e) ==
    /\ lay' = PlainRecalc([lay EXCEPT !.canvas = [set |-> TRUE, x |-> 0, y |-> 0,
                                                  w |-> e, h |-> e]])
    /\ UNCHANGED <<tree, grd, ev, wid>>

\* container.dirty = True
ResizeDirty ==
    /\ ~LayDirty(lay)
    /\ lay' = LaySetDirty(lay, TRUE)
    /\ UNCHANGED <<tree, grd, ev, wid>>

InitResize ==
    /\ tree = NewTree
    /\ InitGrd
    /\ InitEv
    /\ InitWid
    /\ \E n \in 0..MaxResizeChildren : \E f \in [1..n -> ChildChoices] :
          lay = NewContainer("ContainerView", HOR_MID, ChildList(f, n))

NextResize ==
    \/ \E e \in 0..MaxCanvas : ResizeCanvas(e)
    \/ ResizeDirty

SpecResize == InitResize /\ [][NextResize]_vars

\* C29: whenever a plain ContainerView is assigned a canvas, afterwards every
\* child's canvas is that new canvas, also when the container was not dirty
\* at the moment of the assignment.
C29_CanvasAlwaysRelaysOut ==
    [][lay'.canvas # lay.canvas
       => \A i \in 1..Len(lay'.children) :
             lay'.children[i].canvas = Whole(lay'.canvas)]_vars

\* A dirty ContainerView that is assigned a canvas hands it to every child.
DirtyCanvasRelaysOut ==
    [][(lay'.canvas # lay.canvas /\ LayDirty(lay))
       => \A i \in 1..Len(lay'.children) :
             lay'.children[i].canvas = Whole(lay'.canvas)]_vars

====
